---- MODULE Spec2Model ----
(***************************************************************************)
(* Verification model of the SCR (Scalable Checkpoint/Restart) library,    *)
(* src/src/scr.c.  The module holds several specifications, one per        *)
(* subsystem:                                                              *)
(*   SpecXor   - XOR reduce-scatter encode and pipelined rebuild           *)
(*   SpecDist  - redistribution of cached files at restart                 *)
(*   SpecInit  - the restart loop of SCR_Init over the cached checkpoints  *)
(*   SpecFilemap - the order of filemap writes and file creation, with     *)
(*               crashes                                                   *)
(*   SpecFlush - the flush file, synchronous and asynchronous flushes to   *)
(*               the parallel file system, cache eviction, over several    *)
(*               runs of the job                                           *)
(*   SpecEvict - the eviction loop of SCR_Start_checkpoint                 *)
(*   SpecCkpt  - the checkpoint calls of the interface and their codes     *)
(*   SpecArx   - scr_attempt_rebuild_xor: the decision per XOR set         *)
(*   SpecFetch - scr_fetch_files and the cleanup after a failed fetch      *)
(*   SpecXfer  - the transfer file between the library and the movers:     *)
(*               start, test, stop and completion of an asynchronous flush *)
(*   SpecHalt  - what the halt branch and SCR_Finalize flush before they   *)
(*               leave                                                     *)
(*   SpecScatter - scr_scatter_filemaps on a node, with crashes            *)
(*   SpecDesc  - the creation and the choice of checkpoint descriptors     *)
(*   SpecWait  - scr_flush_async_wait polling the transfer file            *)
(*   SpecExchange - the message exchange of scr_distribute_files, round by *)
(*               round                                                     *)
(*   SpecWindow - the sliding window of scr_flush_files between rank 0 and *)
(*               the other ranks                                           *)
(*   SpecMove  - scr_swap_files in MOVE mode, byte by byte, with crashes   *)
(***************************************************************************)
EXTENDS Integers, Naturals, Sequences, FiniteSets, TLC

VARIABLES
    xor_pc,       \* phase of the XOR scenario
    xor_ranks,    \* c->ranks: size of the XOR group
    xor_files,    \* group rank -> the checkpoint files it holds in cache
    xor_orig,     \* group rank -> the files it wrote (kept for comparison)
    xor_art,      \* group rank -> its XOR artifact (header + chunk) or NoArt
    xor_root,     \* the member that lost its files, -1 if none
    xor_rc,       \* group rank -> return code of the last collective call
    dist_pc,      \* phase of the restart distribution
    dist_world,   \* scr_ranks_world of the restarted job
    dist_copy,    \* c->copy_type of the checkpoint being distributed
    dist_map,     \* process -> rank -> filemap entry (with the state of its files)
    dist_events,  \* number of failures that hit the cache before the restart
    dist_plan,    \* process -> its round plan
    dist_round,   \* the round the exchange loop is in
    dist_rc,      \* process -> return code of scr_distribute_files
    dist_premise, \* whether every rank's file set was usable somewhere at entry
    dist_entry,   \* the caches as scr_distribute_files found them, <<>> before
    init_pc,      \* position of SCR_Init in its restart section
    init_map,     \* checkpoint id -> process -> rank -> filemap entry
    init_copy,    \* copy type of the checkpoint descriptors
    init_faults,  \* number of failures that hit the cache before the restart
    init_usable,  \* the checkpoints that were recoverable when SCR_Init began
    init_tried,   \* the checkpoint ids the loop attempted, in order
    init_rc,      \* rc of SCR_Init
    init_checkpoint_id,  \* process -> its scr_checkpoint_id
    scr_global_restart,  \* SCR_GLOBAL_RESTART
    fm_pc,        \* the step one process is at
    fm_copy,      \* c->copy_type of the run
    fm_i,         \* number of files the current loop has handled
    fm_map,       \* scr_map: the names listed in the filemap in memory
    fm_disk,      \* the names listed in the filemap file scr_map_file
    fm_cache,     \* the files that exist in the checkpoint directory
    fm_unlisted,  \* files created while absent from the filemap file
    fl_pc,        \* call stack of the job: the step it is at, then the return steps
    scr_ranks_world,   \* number of ranks of the run
    scr_flush_async,   \* SCR_FLUSH_ASYNC of the run
    scr_cache_size,    \* SCR_CACHE_SIZE of the run
    scr_checkpoint_id, \* id of the latest checkpoint
    scr_flush_async_in_progress,    \* whether an asynchronous flush is recorded
    scr_flush_async_checkpoint_id,  \* the id that flush is for
    fl_flushing,  \* the local variable flushing of SCR_Start_checkpoint
    flush_file,   \* node -> checkpoint id -> the locations its flush file lists
    fl_cache,     \* checkpoint id -> ranks in the meta data of its cached files, 0 if not cached
    fl_transfer,  \* the files list of the transfer file: none, queued, written
    fl_dirs,      \* the checkpoint directories created in the prefix directory
    fl_current,   \* the directory scr.current points to, 0 if there is no link
    fl_dir,       \* the directory of the flush being carried out
    fl_started,   \* ids whose asynchronous flush was started and not completed
    fl_open,      \* the same, less the ids a later SCR_Init restored or deleted
    fl_req,       \* the flush requested while another id was being flushed
    fl_evicted,   \* the deletions SCR_Start_checkpoint made to evict
    fl_sync,      \* the outcome of the last scr_flush_files that copied files
    fl_start,     \* the SCR_Start_checkpoint of the open checkpoint: what it found and did
    fl_runs,      \* number of runs of the job so far
    ev_pc,  \* position in the eviction of SCR_Start_checkpoint
    ev_size,  \* the size configured for the base
    ev_cache,  \* ids of the checkpoints cached at the base
    ev_marks,  \* ids marked FLUSHING in the flush file
    ev_async,  \* scr_flush_async_checkpoint_id
    ev_in,  \* the cache and the marks SCR_Start_checkpoint found
    ev_i,  \* index of the eviction loop
    ev_st,  \* nckpts_base, flushing and the deletions of the loop
    ev_log,  \* the flushes completed and checkpoints deleted, in order
    ck_pc,  \* position of the application between the public calls
    scr_in_checkpoint,  \* set between SCR_Start_checkpoint and SCR_Complete_checkpoint
    ck_checkpoint_id,  \* scr_checkpoint_id of the run
    ck_map,  \* filemap of each rank: the files listed for each checkpoint
    ck_disk,  \* cache of each rank: data and meta data of each file
    ck_flush,  \* ids the flush file marks CACHE
    ck_call,  \* the last public call, its arguments and the code each rank got
    ck_hist,  \* the accepted SCR_Start_checkpoint and SCR_Complete_checkpoint calls
    ar_pc,  \* position in scr_attempt_rebuild_xor
    ar_size,  \* number of members of an XOR set
    ar_need,  \* world rank -> need_rebuild
    ar_total,  \* world rank -> total_rebuild of its set
    ar_root,  \* world rank -> rebuild_rank it computed, -1 if it computed none
    ar_io,  \* the ranks that took part in scr_rebuild_xor
    ar_rc,  \* world rank -> the code returned
    ft_pc,  \* rank -> position in scr_fetch_files
    ft_old,  \* whether the cache held files of the checkpoint before the fetch
    ft_map,  \* rank -> its filemap entry for the fetched checkpoint
    ft_disk,  \* node -> the files and sidecars in the checkpoint directory
    ft_dir,  \* node -> whether the checkpoint directory exists
    ft_success,  \* rank -> success of scr_fetch_files_list
    ft_failed,  \* rank -> the files the rank failed to fetch
    ft_rc,  \* rank -> return code of scr_fetch_files
    xf_flush,  \* scr_flush > 0: flushing is enabled
    xf_call,  \* the call of the library that is running, "none" between calls
    xf_at,  \* node -> position of its master rank in the call
    xf_file,  \* node -> the transfer file
    xf_hash,  \* node -> the files of scr_flush_async_hash on the node
    xf_in_progress,  \* node -> scr_flush_async_in_progress on its ranks
    xf_flushing,  \* node -> FLUSHING mark of the checkpoint in the flush file
    xf_seen,  \* node -> valid / transfer_complete on its master rank
    xf_ret,  \* the call that returned last and its code
    xf_access,  \* the accesses made to the flush and transfer files
    hl_pc,  \* where the halt branch or SCR_Finalize stands
    hl_call,  \* halt or finalize
    hl_flush,  \* scr_flush
    hl_cur,  \* scr_checkpoint_id
    hl_in_progress,  \* scr_flush_async_in_progress
    hl_async_id,  \* scr_flush_async_checkpoint_id
    hl_ff,  \* node -> checkpoint id -> locations of the flush file
    hl_transfer,  \* the files listed in the transfer files
    hl_entry,  \* what held when the call began
    hl_sync,  \* what scr_flush_files did and returned
    sc_pc,  \* where scr_scatter_filemaps stands on the node
    sc_local,  \* scr_ranks_local of the run
    sc_disk,  \* local rank -> entries of its filemap file, {} if absent
    sc_listed,  \* the filemap files the master map lists
    sc_todo,  \* the listed files the master has still to read
    sc_all,  \* all_map of the master
    sc_my,  \* local rank -> my_map
    sc_wrote,  \* the local ranks that wrote their filemap
    sc_before,  \* the entries recorded on the node when the scatter began
    ds_pc,  \* where the set-up of the checkpoint descriptors stands
    ds_ranks,  \* the size of scr_comm_level, one rank on each node
    ds_ckpts,  \* scr_ckptdescs: enabled on each rank, and interval
    ds_cur,  \* the descriptor that was just created
    ds_got,  \* the last call of scr_ckptdesc_get and what it returned
    wt_pc,  \* where scr_flush_async_wait stands
    wt_in_progress,  \* scr_flush_async_in_progress
    wt_flushing,  \* per node: the flush file marks the checkpoint FLUSHING
    wt_file,  \* per node: the transfer file
    wt_hash,  \* per node: scr_flush_async_hash, the files the flush enqueued
    wt_have,  \* per node: scr_check_files succeeds on its ranks
    wt_seen,  \* per node: transfer_complete of the master in the running test
    init_fetch,  \* how the fetch of SCR_Init ended
    init_ret,  \* per rank: what SCR_Init returned
    ex_world,  \* number of processes of the exchange
    ex_map,  \* the filemaps at the start of the round loop
    ex_plan,  \* per process: have_rank_by_round, send_flag_by_round, retrieve_rank, retrieve_round
    ex_proc,  \* per process: where it stands in the round loop and its locals
    ex_chan,  \* messages sent and not yet received, by sender and receiver
    ex_bad,  \* a receive matched a message of another kind
    sw_ranks,  \* scr_ranks_world of the flush
    sw_width,  \* scr_flush_width
    sw_zero,  \* the locals of rank 0 in the window loop
    sw_pc,  \* per non-zero rank: where it stands
    sw_start,  \* per non-zero rank: start messages sent to it and not yet received
    sw_bytes,  \* per non-zero rank: byte counts it sent that rank 0 has not yet received
    sw_hash,  \* per non-zero rank: summary hashes it sent that rank 0 has not yet received
    sw_tokens,  \* per non-zero rank: start messages it has received
    sw_replies,  \* per non-zero rank: replies rank 0 has received from it
    mv_buf,  \* scr_mpi_buf_size of the exchange
    mv_orig,  \* rank -> the bytes of that rank's file before the exchange
    mv_disk,  \* process -> file name -> bytes on disk
    mv_meta,  \* process -> file name -> sidecar on disk
    mv_proc,  \* process -> locals of scr_swap_files
    mv_chan,  \* process -> data messages on their way to it
    mv_mchan,  \* process -> meta data messages on their way to it
    mv_sent,  \* process -> bytes it has sent so far
    mv_crashed  \* the job died during the exchange

xorVars == <<xor_pc, xor_ranks, xor_files, xor_orig, xor_art, xor_root, xor_rc>>

distVars == <<dist_pc, dist_world, dist_copy, dist_map, dist_events, dist_plan,
              dist_round, dist_rc, dist_premise, dist_entry>>

initVars == <<init_pc, init_map, init_copy, init_faults, init_usable, init_tried,
              init_rc, init_checkpoint_id, scr_global_restart>>

fmVars == <<fm_pc, fm_copy, fm_i, fm_map, fm_disk, fm_cache, fm_unlisted>>

flushVars == <<fl_pc, scr_ranks_world, scr_flush_async, scr_cache_size,
               scr_checkpoint_id, scr_flush_async_in_progress,
               scr_flush_async_checkpoint_id, fl_flushing, flush_file, fl_cache,
               fl_transfer, fl_dirs, fl_current, fl_dir, fl_started, fl_open,
               fl_req, fl_evicted, fl_sync, fl_start, fl_runs>>

evictVars == <<ev_pc, ev_size, ev_cache, ev_marks, ev_async, ev_in, ev_i, ev_st,
               ev_log>>

ckptVars == <<ck_pc, scr_in_checkpoint, ck_checkpoint_id, ck_map, ck_disk, ck_flush, ck_call, ck_hist>>

attemptVars == <<ar_pc, ar_size, ar_need, ar_total, ar_root, ar_io, ar_rc>>

fetchVars == <<ft_pc, ft_old, ft_map, ft_disk, ft_dir, ft_success, ft_failed, ft_rc>>

xferVars == <<xf_flush, xf_call, xf_at, xf_file, xf_hash, xf_in_progress, xf_flushing, xf_seen, xf_ret, xf_access>>

haltVars == <<hl_pc, hl_call, hl_flush, hl_cur, hl_in_progress, hl_async_id, hl_ff, hl_transfer, hl_entry, hl_sync>>

scatterVars == <<sc_pc, sc_local, sc_disk, sc_listed, sc_todo, sc_all, sc_my, sc_wrote, sc_before>>

descVars == <<ds_pc, ds_ranks, ds_ckpts, ds_cur, ds_got>>

waitVars == <<wt_pc, wt_in_progress, wt_flushing, wt_file, wt_hash, wt_have, wt_seen>>

tailVars == <<init_fetch, init_ret>>

exVars == <<ex_world, ex_map, ex_plan, ex_proc, ex_chan, ex_bad>>

swVars == <<sw_ranks, sw_width, sw_zero, sw_pc, sw_start, sw_bytes, sw_hash, sw_tokens, sw_replies>>

moveVars == <<mv_buf, mv_orig, mv_disk, mv_meta, mv_proc, mv_chan, mv_mchan, mv_sent, mv_crashed>>

vars == <<xorVars, distVars, initVars, fmVars, flushVars, evictVars,
          ckptVars, attemptVars, fetchVars, xferVars, haltVars, scatterVars,
          descVars, waitVars, tailVars, exVars, swVars, moveVars>>

SCR_SUCCESS == "SCR_SUCCESS"
SCR_FAILURE == "SCR_FAILURE"

(***************************************************************************)
(* Bounds of the model.                                                    *)
(***************************************************************************)
MaxRanks == 3
MaxFileSize == 2
MpiBufSize == 2
MaxDistRanks == 3
MaxEvents == 2
InitRanks == 3
MaxCkpts == 2
MaxFaults == 2
MaxFmFiles == 2

\* a byte is modelled as a two-bit value
ByteVals == 0..3

\* the value of a function expression, computed once rather than at each application
Strict(f) == IF f = f THEN f ELSE f

Min(a, b) == IF a < b THEN a ELSE b

RECURSIVE SeqSum(_)
SeqSum(s) == IF s = <<>> THEN 0 ELSE Head(s) + SeqSum(Tail(s))

RECURSIVE SetMax(_)
SetMax(S) ==
    IF S = {} THEN 0
    ELSE LET x == CHOOSE y \in S : TRUE
             m == SetMax(S \ {x})
         IN IF x > m THEN x ELSE m

\* send_buf[i] ^= recv_buf[i] on one byte
XorByte(a, b) == (((a % 2) + (b % 2)) % 2) + 2 * (((a \div 2) + (b \div 2)) % 2)

\* the xor loop over a buffer of count bytes
XorBuf(a, b) == [i \in 1..Len(a) |-> XorByte(a[i], b[i])]

\* memset(send_buf, 0, count)
ZeroBuf(count) == [i \in 1..count |-> 0]

(***************************************************************************)
(* The logical file: the concatenation of a process's files in filemap     *)
(* order.                                                                  *)
(***************************************************************************)
RECURSIVE Concat(_)
Concat(files) == IF files = <<>> THEN <<>> ELSE Head(files) \o Concat(Tail(files))

FileSizes(files) == [i \in 1..Len(files) |-> Len(files[i])]

\* scr_read_pad_n: count bytes of the logical file starting at offset,
\* zero bytes beyond the end of the last file
scr_read_pad_n(files, count, offset) ==
    LET data == Concat(files)
    IN [i \in 1..count |-> IF offset + i <= Len(data) THEN data[offset + i] ELSE 0]

\* scr_write_pad_n: store buf at offset of the logical file whose bytes
\* written so far are data and whose total size is total; bytes beyond the
\* end of the last file are dropped
scr_write_pad_n(data, buf, offset, total) ==
    [i \in 1..total |->
        IF i > offset /\ i <= offset + Len(buf) THEN buf[i - offset] ELSE data[i]]

\* split the logical file back into files of the given sizes
RECURSIVE SplitFiles(_, _)
SplitFiles(data, sizes) ==
    IF sizes = <<>> THEN <<>>
    ELSE <<SubSeq(data, 1, Head(sizes))>>
         \o SplitFiles(SubSeq(data, Head(sizes) + 1, Len(data)), Tail(sizes))

(***************************************************************************)
(* scr_copy_xor                                                            *)
(***************************************************************************)
lhs_rank(r, ranks) == (r + ranks - 1) % ranks
rhs_rank(r, ranks) == (r + 1) % ranks

\* a chunk size that is not rounded up
xor_chunk_size_floor(max_bytes, ranks) ==
    LET q == max_bytes \div (ranks - 1)
    IN IF q = 0 THEN q + 1 ELSE q

\* chunk size from the largest logical file of the group
xor_chunk_size(max_bytes, ranks) ==
    LET q == max_bytes \div (ranks - 1)
        c == IF (ranks - 1) * q < max_bytes THEN q + 1 ELSE q
    IN IF c = 0 THEN c + 1 ELSE c

\* the same without the shift past the rank's own slot
chunk_id_rel_no_shift(my_rank, ranks, chunk_id) ==
    (my_rank + ranks + chunk_id) % ranks

\* which chunk of its logical file a rank reads in step chunk_id
chunk_id_rel(my_rank, ranks, chunk_id) ==
    LET rel == (my_rank + ranks + chunk_id) % ranks
    IN IF rel > my_rank THEN rel - 1 ELSE rel

\* send_buf of rank r after step chunk_id of the reduce-scatter, for the
\* piece of count bytes at nread; recv_buf is what lhs sent in the step before
RECURSIVE copy_xor_send_buf(_, _, _, _, _, _, _)
copy_xor_send_buf(files, ranks, chunk_size, r, chunk_id, nread, count) ==
    LET own == IF chunk_id > 0
               THEN scr_read_pad_n(files[r], count,
                        chunk_size * chunk_id_rel(r, ranks, chunk_id) + nread)
               ELSE ZeroBuf(count)
    IN IF chunk_id < ranks - 1
       THEN XorBuf(own, copy_xor_send_buf(files, ranks, chunk_size,
                            lhs_rank(r, ranks), chunk_id + 1, nread, count))
       ELSE own

\* a chunk file that holds only the first piece
copy_xor_chunk_one_pass(files, ranks, chunk_size, r, nread) ==
    copy_xor_send_buf(files, ranks, chunk_size, r, 0, nread,
                      Min(chunk_size - nread, MpiBufSize))

\* the bytes rank r writes to its chunk file: one piece per pass of the
\* while (nread < chunk_size) loop
RECURSIVE copy_xor_chunk(_, _, _, _, _)
copy_xor_chunk(files, ranks, chunk_size, r, nread) ==
    IF nread >= chunk_size THEN <<>>
    ELSE LET count == Min(chunk_size - nread, MpiBufSize)
         IN copy_xor_send_buf(files, ranks, chunk_size, r, 0, nread, count)
            \o copy_xor_chunk(files, ranks, chunk_size, r, nread + count)

NoArt == [present |-> FALSE]

\* the XOR artifact of rank r: header (chunk size, CURRENT and PARTNER file
\* lists) and the chunk
copy_xor_artifact(files, ranks, r) ==
    LET max_bytes  == SetMax({SeqSum(FileSizes(files[q])) : q \in 0..(ranks - 1)})
        chunk_size == xor_chunk_size(max_bytes, ranks)
    IN [present |-> TRUE,
        chunk_size |-> chunk_size,
        current |-> FileSizes(files[r]),
        partner |-> FileSizes(files[lhs_rank(r, ranks)]),
        chunk |-> copy_xor_chunk(files, ranks, chunk_size, r, 0)]

(***************************************************************************)
(* scr_rebuild_xor                                                         *)
(***************************************************************************)
\* an offset that also counts the rank's own chunk
rebuild_offset_plain(my_rank, chunk_id, chunk_size, nread) ==
    chunk_size * chunk_id + nread

\* the running offset into the logical file when the loop reaches the piece
\* at nread of chunk chunk_id: every earlier chunk other than the rank's own
\* advanced it by chunk_size
rebuild_offset(my_rank, chunk_id, chunk_size, nread) ==
    chunk_size * Cardinality({c \in 0..(chunk_id - 1) : c # my_rank}) + nread

\* send_buf of the non-root rank r for the piece at nread of chunk chunk_id
RECURSIVE rebuild_send_buf(_, _, _, _, _, _, _, _)
rebuild_send_buf(files, arts, ranks, root, r, chunk_id, nread, count) ==
    LET chunk_size == arts[r].chunk_size
        own == IF chunk_id # r
               THEN scr_read_pad_n(files[r], count,
                        rebuild_offset(r, chunk_id, chunk_size, nread))
               ELSE SubSeq(arts[r].chunk, nread + 1, nread + count)
    IN IF root # lhs_rank(r, ranks)
       THEN XorBuf(own, rebuild_send_buf(files, arts, ranks, root,
                            lhs_rank(r, ranks), chunk_id, nread, count))
       ELSE own

\* the root's loop: st.data is its logical file, st.chunk its chunk file
RECURSIVE rebuild_root_loop(_, _, _, _, _, _, _, _)
rebuild_root_loop(st, files, arts, ranks, root, chunk_size, chunk_id, nread) ==
    IF chunk_id >= ranks THEN st
    ELSE IF nread >= chunk_size
    THEN rebuild_root_loop(st, files, arts, ranks, root, chunk_size, chunk_id + 1, 0)
    ELSE LET count == Min(chunk_size - nread, MpiBufSize)
             recv_buf == rebuild_send_buf(files, arts, ranks, root,
                             lhs_rank(root, ranks), chunk_id, nread, count)
             st2 == IF chunk_id # root
                    THEN [st EXCEPT !.data = scr_write_pad_n(st.data, recv_buf,
                              rebuild_offset(root, chunk_id, chunk_size, nread),
                              Len(st.data))]
                    ELSE [st EXCEPT !.chunk = st.chunk \o recv_buf]
         IN rebuild_root_loop(st2, files, arts, ranks, root, chunk_size,
                              chunk_id, nread + count)

\* what the root holds after the rebuild: its files and its XOR artifact
rebuild_xor_root(files, arts, ranks, root) ==
    LET header     == arts[rhs_rank(root, ranks)]
        current    == header.partner
        partner    == arts[lhs_rank(root, ranks)].current
        chunk_size == header.chunk_size
        st0        == [data |-> ZeroBuf(SeqSum(current)), chunk |-> <<>>]
        st         == rebuild_root_loop(st0, files, arts, ranks, root, chunk_size, 0, 0)
    IN [files |-> SplitFiles(st.data, current),
        art |-> [present |-> TRUE, chunk_size |-> chunk_size,
                 current |-> current, partner |-> partner, chunk |-> st.chunk]]

(***************************************************************************)
(* The XOR scenario: every member of one XOR group writes its files, the   *)
(* group encodes, one member loses its cache, the group rebuilds.          *)
(***************************************************************************)
\* file-size lists a member may have written: none, empty, unequal sizes
FileSizeLists ==
    {<<>>, <<0>>, <<1>>, <<MaxFileSize>>, <<1, 0>>, <<0, MaxFileSize>>,
     <<MaxFileSize, 1>>, <<1, 1>>}

Seeds == 0..1

\* the content of byte p of file f of rank r
PatternByte(seed, r, f, p) == (seed + r + 2 * f + 3 * p) % 4

PatternFiles(seed, r, sizes) ==
    [f \in 1..Len(sizes) |-> [p \in 1..sizes[f] |-> PatternByte(seed, r, f, p)]]

XorGroup == 0..(xor_ranks - 1)

\* the distributor is not part of this scenario
IdleDist ==
    /\ dist_pc = "idle"
    /\ dist_world = 0
    /\ dist_copy = "none"
    /\ dist_map = <<>>
    /\ dist_events = 0
    /\ dist_plan = <<>>
    /\ dist_round = 0
    /\ dist_rc = <<>>
    /\ dist_premise = FALSE
    /\ dist_entry = <<>>

IdleInit ==
    /\ init_pc = "idle"
    /\ init_map = <<>>
    /\ init_copy = <<>>
    /\ init_faults = 0
    /\ init_usable = {}
    /\ init_tried = <<>>
    /\ init_rc = "none"
    /\ init_checkpoint_id = <<>>
    /\ scr_global_restart = FALSE

IdleFilemap ==
    /\ fm_pc = "off"
    /\ fm_copy = "none"
    /\ fm_i = 0
    /\ fm_map = {}
    /\ fm_disk = {}
    /\ fm_cache = {}
    /\ fm_unlisted = {}

IdleFlush ==
    /\ fl_pc = <<>>
    /\ scr_ranks_world = 0
    /\ scr_flush_async = FALSE
    /\ scr_cache_size = 0
    /\ scr_checkpoint_id = 0
    /\ scr_flush_async_in_progress = FALSE
    /\ scr_flush_async_checkpoint_id = 0
    /\ fl_flushing = -1
    /\ flush_file = <<>>
    /\ fl_cache = <<>>
    /\ fl_transfer = "none"
    /\ fl_dirs = <<>>
    /\ fl_current = 0
    /\ fl_dir = 0
    /\ fl_started = {}
    /\ fl_open = {}
    /\ fl_req = <<>>
    /\ fl_evicted = {}
    /\ fl_sync = <<>>
    /\ fl_start = <<>>
    /\ fl_runs = 0

IdleEvict ==
    /\ ev_pc = "idle"
    /\ ev_size = 0
    /\ ev_cache = {}
    /\ ev_marks = {}
    /\ ev_async = -1
    /\ ev_in = <<>>
    /\ ev_i = 0
    /\ ev_st = <<>>
    /\ ev_log = <<>>

IdleCkpt ==
    /\ ck_pc = "idle"
    /\ scr_in_checkpoint = FALSE
    /\ ck_checkpoint_id = 0
    /\ ck_map = <<>>
    /\ ck_disk = <<>>
    /\ ck_flush = {}
    /\ ck_call = <<>>
    /\ ck_hist = <<>>

IdleAttempt ==
    /\ ar_pc = "idle"
    /\ ar_size = 0
    /\ ar_need = <<>>
    /\ ar_total = <<>>
    /\ ar_root = <<>>
    /\ ar_io = {}
    /\ ar_rc = <<>>

IdleFetch ==
    /\ ft_pc = <<>>
    /\ ft_old = FALSE
    /\ ft_map = <<>>
    /\ ft_disk = <<>>
    /\ ft_dir = <<>>
    /\ ft_success = <<>>
    /\ ft_failed = <<>>
    /\ ft_rc = <<>>

IdleXfer ==
    /\ xf_flush = FALSE
    /\ xf_call = "idle"
    /\ xf_at = <<>>
    /\ xf_file = <<>>
    /\ xf_hash = <<>>
    /\ xf_in_progress = <<>>
    /\ xf_flushing = <<>>
    /\ xf_seen = <<>>
    /\ xf_ret = <<>>
    /\ xf_access = {}

IdleHalt ==
    /\ hl_pc = "idle"
    /\ hl_call = "none"
    /\ hl_flush = 0
    /\ hl_cur = 0
    /\ hl_in_progress = FALSE
    /\ hl_async_id = -1
    /\ hl_ff = <<>>
    /\ hl_transfer = "none"
    /\ hl_entry = <<>>
    /\ hl_sync = <<>>

IdleScatter ==
    /\ sc_pc = "idle"
    /\ sc_local = 0
    /\ sc_disk = <<>>
    /\ sc_listed = {}
    /\ sc_todo = {}
    /\ sc_all = {}
    /\ sc_my = <<>>
    /\ sc_wrote = {}
    /\ sc_before = {}

IdleDesc ==
    /\ ds_pc = "idle"
    /\ ds_ranks = 0
    /\ ds_ckpts = <<>>
    /\ ds_cur = <<>>
    /\ ds_got = <<>>

IdleWait ==
    /\ wt_pc = "idle"
    /\ wt_in_progress = FALSE
    /\ wt_flushing = <<>>
    /\ wt_file = <<>>
    /\ wt_hash = <<>>
    /\ wt_have = <<>>
    /\ wt_seen = <<>>

IdleTail ==
    /\ init_fetch = "idle"
    /\ init_ret = <<>>

IdleExchange ==
    /\ ex_world = 0
    /\ ex_map = <<>>
    /\ ex_plan = <<>>
    /\ ex_proc = <<>>
    /\ ex_chan = <<>>
    /\ ex_bad = FALSE

IdleWindow ==
    /\ sw_ranks = 0
    /\ sw_width = 0
    /\ sw_zero = <<>>
    /\ sw_pc = <<>>
    /\ sw_start = <<>>
    /\ sw_bytes = <<>>
    /\ sw_hash = <<>>
    /\ sw_tokens = <<>>
    /\ sw_replies = <<>>

IdleMove ==
    /\ mv_buf = 0
    /\ mv_orig = <<>>
    /\ mv_disk = <<>>
    /\ mv_meta = <<>>
    /\ mv_proc = <<>>
    /\ mv_chan = <<>>
    /\ mv_mchan = <<>>
    /\ mv_sent = <<>>
    /\ mv_crashed = FALSE

InitXor ==
    /\ IdleDist
    /\ IdleInit
    /\ IdleFilemap
    /\ IdleFlush
    /\ IdleEvict
    /\ IdleCkpt
    /\ IdleAttempt
    /\ IdleFetch
    /\ IdleXfer
    /\ IdleHalt
    /\ IdleScatter
    /\ IdleDesc
    /\ IdleWait
    /\ IdleTail
    /\ IdleExchange
    /\ IdleWindow
    /\ IdleMove
    /\ xor_pc = "written"
    /\ xor_ranks \in 2..MaxRanks
    /\ \E seed \in Seeds :
       \E sizes \in [0..(xor_ranks - 1) -> FileSizeLists] :
          xor_orig = [r \in 0..(xor_ranks - 1) |-> PatternFiles(seed, r, sizes[r])]
    /\ xor_files = xor_orig
    /\ xor_art = [r \in 0..(xor_ranks - 1) |-> NoArt]
    /\ xor_root = -1
    /\ xor_rc = [r \in 0..(xor_ranks - 1) |-> SCR_SUCCESS]

\* scr_copy_xor on every member of the group
CopyXor ==
    /\ xor_pc = "written"
    /\ xor_art' = [r \in XorGroup |-> copy_xor_artifact(xor_files, xor_ranks, r)]
    /\ xor_rc' = [r \in XorGroup |-> SCR_SUCCESS]
    /\ xor_pc' = "encoded"
    /\ UNCHANGED <<xor_ranks, xor_files, xor_orig, xor_root>>

\* one member loses all of its files and its XOR artifact
LoseMember(r) ==
    /\ xor_pc \in {"encoded", "rebuilt"}
    /\ xor_files' = [xor_files EXCEPT ![r] = <<>>]
    /\ xor_art' = [xor_art EXCEPT ![r] = NoArt]
    /\ xor_root' = r
    /\ xor_pc' = "lost"
    /\ UNCHANGED <<xor_ranks, xor_orig, xor_rc>>

\* scr_rebuild_xor with the failed member as root
RebuildXor ==
    /\ xor_pc = "lost"
    /\ LET res == rebuild_xor_root(xor_files, xor_art, xor_ranks, xor_root)
       IN /\ xor_files' = [xor_files EXCEPT ![xor_root] = res.files]
          /\ xor_art' = [xor_art EXCEPT ![xor_root] = res.art]
    /\ xor_rc' = [r \in XorGroup |-> SCR_SUCCESS]
    /\ xor_pc' = "rebuilt"
    /\ UNCHANGED <<xor_ranks, xor_orig, xor_root>>

NextXor ==
    /\ \/ CopyXor
       \/ \E r \in XorGroup : LoseMember(r)
       \/ RebuildXor
    /\ UNCHANGED <<distVars, initVars, fmVars, flushVars, evictVars,
                   ckptVars, attemptVars, fetchVars, xferVars, haltVars,
                   scatterVars, descVars, waitVars, tailVars, exVars, swVars,
                   moveVars>>

SpecXor == InitXor /\ [][NextXor]_vars

\* C1: after scr_copy_xor succeeded on every member and one member lost all
\* of its files and its XOR artifact, scr_rebuild_xor with that member as
\* root gives it back the same files, byte for byte, whatever the file counts
\* and sizes of the members.
C1_RebuildRestoresFiles ==
    xor_pc = "rebuilt" =>
        /\ xor_files[xor_root] = xor_orig[xor_root]
        /\ \A r \in XorGroup : xor_files[r] = xor_orig[r]

\* a rebuild happened for a member that had a zero-byte file and a non-empty
\* file, in a group whose members' sizes differ
C1_Witness ==
    /\ xor_pc = "rebuilt"
    /\ xor_ranks = MaxRanks
    /\ Len(xor_orig[xor_root]) = 2
    /\ \E f \in 1..2 : Len(xor_orig[xor_root][f]) = 0
    /\ \E f \in 1..2 : Len(xor_orig[xor_root][f]) = MaxFileSize
    /\ \E r \in XorGroup : SeqSum(FileSizes(xor_orig[r])) < SeqSum(FileSizes(xor_orig[xor_root]))
    /\ xor_files[xor_root] = xor_orig[xor_root]

(***************************************************************************)
(* Restart distributor: scr_distribute_files                               *)
(***************************************************************************)
SCR_COPY_LOCAL == "LOCAL"
SCR_COPY_PARTNER == "PARTNER"
SCR_COPY_XOR == "XOR"
MPI_PROC_NULL == -1

DistProcs == 0..(dist_world - 1)

\* the files rank r wrote for the checkpoint (their number differs by rank,
\* one rank in three wrote none)
DistFilesOf(r) == 1..((r + 1) % 3)

\* a filemap entry for one rank: the files listed, those of them that are
\* present and complete on disk, and the expected number of files
NoEntry == [present |-> FALSE, listed |-> {}, valid |-> {}, expected |-> -1]

\* an entry that holds only the checkpoint descriptor of a rank
DescEntry == [present |-> TRUE, listed |-> {}, valid |-> {}, expected |-> -1]

FullEntry(r) ==
    [present |-> TRUE, listed |-> DistFilesOf(r), valid |-> DistFilesOf(r),
     expected |-> Cardinality(DistFilesOf(r))]

\* scr_bool_have_files
scr_bool_have_files(map, rank) ==
    /\ map[rank].present
    /\ Cardinality(map[rank].listed) = map[rank].expected
    /\ map[rank].listed \subseteq map[rank].valid

\* scr_clean_files on one entry: an entry missing a file loses all of its
\* files and keeps only its descriptor
clean_entry(e) ==
    IF e.present /\ ~(Cardinality(e.listed) = e.expected /\ e.listed \subseteq e.valid)
    THEN DescEntry
    ELSE e

scr_clean_files(map) == [r \in DOMAIN map |-> clean_entry(map[r])]

\* scr_unlink_rank: delete the files of a rank and drop it from the filemap
scr_unlink_rank(map, rank) == [map EXCEPT ![rank] = NoEntry]

\* scr_filemap_list_ranks_by_checkpoint: the ranks of the filemap, ascending
RECURSIVE SortedSeq(_)
SortedSeq(S) ==
    IF S = {} THEN <<>>
    ELSE LET m == CHOOSE x \in S : \A y \in S : x <= y
         IN <<m>> \o SortedSeq(S \ {m})

list_ranks(map) == SortedSeq({r \in DOMAIN map : map[r].present})

\* the same without the offset: always start at the head of the list
start_index_head(ranks, my_rank) == 0

\* start_index: index of the first rank equal to or higher than our own
\* (indices from 0 as in the source)
start_index(ranks, my_rank) ==
    LET hits == {i \in 0..(Len(ranks) - 1) : ranks[i + 1] >= my_rank}
    IN IF hits = {} THEN 0 ELSE CHOOSE i \in hits : \A j \in hits : i <= j

\* have_rank_by_round, as a sequence indexed by round + 1
have_rank_by_round(map, my_rank) ==
    LET ranks == list_ranks(map)
        nranks == Len(ranks)
        start == start_index(ranks, my_rank)
    IN [k \in 1..nranks |-> ranks[((start + (k - 1)) % nranks) + 1]]

\* the round in which process src offers the files of rank, -1 if it does not
offer_round(map, src, rank) ==
    LET have == have_rank_by_round(map[src], src)
        hits == {k \in 1..Len(have) : have[k] = rank /\ scr_bool_have_files(map[src], rank)}
    IN IF hits = {} THEN -1 ELSE (CHOOSE k \in hits : TRUE) - 1

\* what every process offers: source process -> rank -> round
offer_table(map, procs) ==
    [s \in procs |-> [r \in procs |-> offer_round(map, s, r)]]

\* the minimum round in which someone offers rank its files, -1 if nobody does
min_offer_round(offers, procs, rank) ==
    LET rounds == {offers[s][rank] : s \in procs} \ {-1}
    IN IF rounds = {} THEN -1 ELSE CHOOSE x \in rounds : \A y \in rounds : x <= y

\* the processes a rank may pick as retrieve_rank: those offering the minimum
\* round (the order of the received hash decides among them)
retrieve_candidates(offers, procs, rank) ==
    LET m == min_offer_round(offers, procs, rank)
    IN {s \in procs : offers[s][rank] # -1 /\ offers[s][rank] = m}

\* send_flag_by_round of process p given everybody's choice
send_flag_by_round(nranks, procs, p, retrieve) ==
    [k \in 1..nranks |->
        \E q \in procs : /\ retrieve[q].rank = p
                         /\ retrieve[q].round = k - 1]

max_rounds(plan, procs) ==
    LET rs == {plan[q].retrieve_round : q \in procs}
    IN CHOOSE x \in rs : \A y \in rs : x >= y

\* the balanced layout right after a checkpoint: every process holds its own
\* files; of its left partner it holds a copy of the files with PARTNER, only
\* the checkpoint descriptor with XOR, and nothing with LOCAL
BalancedMap(world, copy) ==
    [p \in 0..(world - 1) |->
        [r \in 0..(world - 1) |->
            IF r = p THEN FullEntry(r)
            ELSE IF copy = SCR_COPY_LOCAL THEN NoEntry
            ELSE IF r = (p + world - 1) % world
                 THEN IF copy = SCR_COPY_PARTNER THEN FullEntry(r) ELSE DescEntry
                 ELSE NoEntry]]

IdleXor ==
    /\ xor_pc = "idle"
    /\ xor_ranks = 0
    /\ xor_files = <<>>
    /\ xor_orig = <<>>
    /\ xor_art = <<>>
    /\ xor_root = -1
    /\ xor_rc = <<>>

InitDist ==
    /\ IdleXor
    /\ IdleInit
    /\ IdleFilemap
    /\ IdleFlush
    /\ IdleEvict
    /\ IdleCkpt
    /\ IdleAttempt
    /\ IdleFetch
    /\ IdleXfer
    /\ IdleHalt
    /\ IdleScatter
    /\ IdleDesc
    /\ IdleWait
    /\ IdleTail
    /\ IdleExchange
    /\ IdleWindow
    /\ IdleMove
    /\ dist_pc = "restart"
    /\ dist_world \in 2..MaxDistRanks
    /\ dist_copy \in {SCR_COPY_LOCAL, SCR_COPY_PARTNER, SCR_COPY_XOR}
    /\ dist_map = BalancedMap(dist_world, dist_copy)
    /\ dist_events = 0
    /\ dist_plan = <<>>
    /\ dist_round = 0
    /\ dist_rc = [p \in 0..(dist_world - 1) |-> "none"]
    /\ dist_premise = FALSE
    /\ dist_entry = <<>>

\* a node is replaced by a spare: the process on it finds an empty cache
NodeLoss(p) ==
    /\ dist_pc = "restart"
    /\ dist_events < MaxEvents
    /\ dist_map' = [dist_map EXCEPT ![p] = [r \in DistProcs |-> NoEntry]]
    /\ dist_events' = dist_events + 1
    /\ UNCHANGED <<dist_pc, dist_world, dist_copy, dist_plan, dist_round, dist_rc, dist_premise,
                 dist_entry>>

\* the job restarts with two ranks on each other's nodes
SwapCaches(p, q) ==
    /\ dist_pc = "restart"
    /\ dist_events < MaxEvents
    /\ p < q
    /\ dist_map' = [dist_map EXCEPT ![p] = dist_map[q], ![q] = dist_map[p]]
    /\ dist_events' = dist_events + 1
    /\ UNCHANGED <<dist_pc, dist_world, dist_copy, dist_plan, dist_round, dist_rc, dist_premise,
                 dist_entry>>

\* a file of rank r in the cache of process p is lost or left incomplete
CorruptEntry(p, r) ==
    /\ dist_pc = "restart"
    /\ dist_events < MaxEvents
    /\ dist_map[p][r].present
    /\ \E f \in dist_map[p][r].valid :
          dist_map' = [dist_map EXCEPT ![p][r].valid = @ \ {f}]
    /\ dist_events' = dist_events + 1
    /\ UNCHANGED <<dist_pc, dist_world, dist_copy, dist_plan, dist_round, dist_rc, dist_premise,
                 dist_entry>>

NoRetrieve == [rank |-> -1, round |-> -1]

\* every way the first n processes can each pick one of their candidates
\* (a sequence indexed by process + 1; -1 for a process with no candidate)
RECURSIVE retrieve_choices(_, _)
retrieve_choices(cands, n) ==
    IF n = 0 THEN {<<>>}
    ELSE LET mine == IF cands[n - 1] = {} THEN {-1} ELSE cands[n - 1]
         IN {Append(s, c) : s \in retrieve_choices(cands, n - 1), c \in mine}

\* where every process retrieves its files from, given the picks
retrieve_of(offers, procs, choice) ==
    [q \in procs |->
        IF choice[q + 1] = -1 THEN NoRetrieve
        ELSE [rank |-> choice[q + 1], round |-> offers[choice[q + 1]][q]]]

\* what every process knows once the rounds are agreed
plan_of(cleaned, procs, retrieve) ==
    [q \in procs |->
        LET have == have_rank_by_round(cleaned[q], q)
        IN [have |-> have,
            send_flag |-> send_flag_by_round(Len(have), procs, q, retrieve),
            retrieve_rank |-> retrieve[q].rank,
            retrieve_round |-> retrieve[q].round]]

\* the start of scr_distribute_files on every process: clean the cache,
\* assign rounds, pick where to retrieve from, agree on the rounds to send in
DistributePlan ==
    /\ dist_pc = "restart"
    /\ LET cleaned == [p \in DistProcs |-> scr_clean_files(dist_map[p])]
           offers  == offer_table(cleaned, DistProcs)
           cands   == [q \in DistProcs |-> retrieve_candidates(offers, DistProcs, q)]
       IN /\ dist_map' = cleaned
          /\ dist_entry' = dist_map
          /\ dist_premise' =
                (\A r \in DistProcs : \E p \in DistProcs :
                     /\ scr_bool_have_files(dist_map[p], r)
                     /\ dist_map[p][r].listed = DistFilesOf(r))
          /\ \E choice \in retrieve_choices(cands, dist_world) :
                LET retrieve == retrieve_of(offers, DistProcs, choice)
                    can_get_files == \A q \in DistProcs : retrieve[q].rank # -1
                IN IF dist_copy # SCR_COPY_XOR /\ ~can_get_files
                   THEN /\ dist_pc' = "done"
                        /\ dist_rc' = [q \in DistProcs |-> SCR_FAILURE]
                        /\ UNCHANGED dist_plan
                   ELSE /\ dist_pc' = "round"
                        /\ dist_plan' = plan_of(cleaned, DistProcs, retrieve)
                        /\ UNCHANGED dist_rc
    /\ dist_round' = 0
    /\ UNCHANGED <<dist_world, dist_copy, dist_events>>

\* the same without the flag: send whatever the round holds
send_rank_unasked(plan, p, round) ==
    IF round < Len(plan[p].have) THEN plan[p].have[round + 1] ELSE MPI_PROC_NULL

\* whom process p sends to and receives from in a round
send_rank(plan, p, round) ==
    IF round < Len(plan[p].have) /\ plan[p].send_flag[round + 1]
    THEN plan[p].have[round + 1]
    ELSE MPI_PROC_NULL

recv_rank(plan, p, round) ==
    IF plan[p].retrieve_round = round THEN plan[p].retrieve_rank ELSE MPI_PROC_NULL

\* the filemap and files of process p after one round of the exchange loop
distribute_round(map, plan, p, round) ==
    LET sr == send_rank(plan, p, round)
        rr == recv_rank(plan, p, round)
    IN IF sr = p
       THEN map[p]
       ELSE LET m1 == IF round < Len(plan[p].have) /\ sr = MPI_PROC_NULL
                      THEN scr_unlink_rank(map[p], plan[p].have[round + 1])
                      ELSE map[p]
                m2 == IF rr # MPI_PROC_NULL
                      THEN LET e == map[rr][p]
                           IN [m1 EXCEPT ![p] =
                                 [present |-> TRUE,
                                  listed |-> m1[p].listed \cup e.listed,
                                  valid |-> m1[p].valid \cup e.valid,
                                  expected |-> Cardinality(e.listed)]]
                      ELSE m1
            IN IF sr # MPI_PROC_NULL THEN [m2 EXCEPT ![sr] = NoEntry] ELSE m2

\* one pass of the loop over the rounds, on every process
DistributeRound ==
    /\ dist_pc = "round"
    /\ dist_round <= max_rounds(dist_plan, DistProcs)
    /\ dist_map' = [p \in DistProcs |-> distribute_round(dist_map, dist_plan, p, dist_round)]
    /\ dist_round' = dist_round + 1
    /\ UNCHANGED <<dist_pc, dist_world, dist_copy, dist_events, dist_plan, dist_rc, dist_premise,
                 dist_entry>>

\* the same from round 0: delete the files of every round
unlink_leftover_all(map, have, round) ==
    [r \in DOMAIN map |->
        IF \E k \in 1..Len(have) : have[k] = r THEN NoEntry ELSE map[r]]

\* delete the files of the rounds beyond max_rounds
RECURSIVE unlink_leftover(_, _, _)
unlink_leftover(map, have, round) ==
    IF round >= Len(have) THEN map
    ELSE unlink_leftover(scr_unlink_rank(map, have[round + 1]), have, round + 1)

\* the end of scr_distribute_files on every process
DistributeFinish ==
    /\ dist_pc = "round"
    /\ dist_round > max_rounds(dist_plan, DistProcs)
    /\ dist_map' = [p \in DistProcs |->
          scr_clean_files(unlink_leftover(dist_map[p], dist_plan[p].have,
                                          max_rounds(dist_plan, DistProcs) + 1))]
    /\ dist_rc' = [p \in DistProcs |-> SCR_SUCCESS]
    /\ dist_pc' = "done"
    /\ UNCHANGED <<dist_world, dist_copy, dist_events, dist_plan, dist_round, dist_premise,
                 dist_entry>>

NextDist ==
    /\ \/ \E p \in DistProcs : NodeLoss(p)
       \/ \E p, q \in DistProcs : SwapCaches(p, q)
       \/ \E p, r \in DistProcs : CorruptEntry(p, r)
       \/ DistributePlan
       \/ DistributeRound
       \/ DistributeFinish
    /\ UNCHANGED <<xorVars, initVars, fmVars, flushVars, evictVars, ckptVars,
                   attemptVars, fetchVars, xferVars, haltVars, scatterVars,
                   descVars, waitVars, tailVars, exVars, swVars, moveVars>>

SpecDist == InitDist /\ [][NextDist]_vars

\* the complete usable file set of rank r is in the filemap of process p
HoldsOwnSet(p, r) ==
    /\ scr_bool_have_files(dist_map[p], r)
    /\ dist_map[p][r].listed = DistFilesOf(r)

\* C2: when scr_distribute_files returns, if every world rank's complete
\* usable file set was held by at least one process at entry, then every
\* rank holds its own complete usable set in its own filemap and the call
\* reports success on every rank.
C2_DistributeRehomes ==
    (dist_pc = "done" /\ dist_premise) =>
        \A p \in DistProcs : HoldsOwnSet(p, p) /\ dist_rc[p] = SCR_SUCCESS

\* a distribution that had to move files between processes in a round after
\* the first and ended with every rank holding its files
C2_Witness ==
    /\ dist_pc = "done"
    /\ dist_premise
    /\ dist_events > 0
    /\ \E p \in DistProcs : dist_plan # <<>> /\ dist_plan[p].retrieve_round > 0
                           /\ dist_plan[p].retrieve_rank # p
    /\ \A p \in DistProcs : HoldsOwnSet(p, p) /\ dist_rc[p] = SCR_SUCCESS

(***************************************************************************)
(* SCR_Init: the loop that restores a checkpoint from cache at restart     *)
(***************************************************************************)
InitProcs == 0..(InitRanks - 1)

Ckpts == 1..MaxCkpts

\* the exchange loop and the end of scr_distribute_files, on every process
RECURSIVE distribute_rounds(_, _, _, _)
distribute_rounds(map, plan, procs, round) ==
    IF round > max_rounds(plan, procs)
    THEN [p \in procs |->
            scr_clean_files(unlink_leftover(map[p], plan[p].have,
                                            max_rounds(plan, procs) + 1))]
    ELSE distribute_rounds(Strict([p \in procs |-> distribute_round(map, plan, p, round)]),
                           plan, procs, round + 1)

\* scr_distribute_files as a whole, for the picks in choice
scr_distribute_files(map, copy, procs, choice) ==
    LET cleaned == Strict([p \in procs |-> scr_clean_files(map[p])])
        offers == Strict(offer_table(cleaned, procs))
        retrieve == Strict(retrieve_of(offers, procs, choice))
    IN IF copy # SCR_COPY_XOR /\ \E q \in procs : retrieve[q].rank = -1
       THEN cleaned
       ELSE distribute_rounds(cleaned, Strict(plan_of(cleaned, procs, retrieve)), procs, 0)

\* scr_distribute_ckptdescs: every rank needs a process that holds its
\* descriptor; on success each process records its own descriptor
have_ckptdescs(map, procs) ==
    \A r \in procs : \E p \in procs : map[p][r].present

record_ckptdescs(map, procs) ==
    [p \in procs |->
        IF map[p][p].present THEN map[p] ELSE [map[p] EXCEPT ![p] = DescEntry]]

\* scr_attempt_rebuild_xor with one XOR set spanning the world: the set can
\* rebuild if at most one member misses its files
need_rebuild(map, p) == ~scr_bool_have_files(map[p], p)

set_can_rebuild(map, procs) ==
    Cardinality({p \in procs : need_rebuild(map, p)}) <= 1

\* scr_rebuild_files: the return code and the cache it leaves
scr_rebuild_files(map, copy, procs) ==
    LET rebuilt == IF copy = SCR_COPY_XOR /\ set_can_rebuild(map, procs)
                   THEN [p \in procs |->
                           IF need_rebuild(map, p)
                           THEN [map[p] EXCEPT ![p] = FullEntry(p)]
                           ELSE map[p]]
                   ELSE map
    IN IF copy = SCR_COPY_XOR /\ ~set_can_rebuild(map, procs)
       THEN [rc |-> SCR_FAILURE, map |-> map]
       ELSE IF \E p \in procs : ~scr_bool_have_files(rebuilt[p], p)
            THEN [rc |-> SCR_FAILURE, map |-> rebuilt]
            ELSE IF copy = SCR_COPY_PARTNER
                 THEN [rc |-> SCR_SUCCESS,
                       map |-> [p \in procs |->
                          [rebuilt[p] EXCEPT ![(p + InitRanks - 1) % InitRanks] =
                              FullEntry((p + InitRanks - 1) % InitRanks)]]]
                 ELSE [rc |-> SCR_SUCCESS, map |-> rebuilt]

\* scr_filemap_latest_checkpoint of one process: -1 for an empty filemap
in_filemap(map, k, p) == \E r \in InitProcs : map[k][p][r].present

latest_checkpoint_lowest(map, p) ==
    LET ids == {k \in Ckpts : in_filemap(map, k, p)}
    IN IF ids = {} THEN -1 ELSE CHOOSE k \in ids : \A j \in ids : k <= j

scr_filemap_latest_checkpoint(map, p) ==
    LET ids == {k \in Ckpts : in_filemap(map, k, p)}
    IN IF ids = {} THEN -1 ELSE CHOOSE k \in ids : \A j \in ids : k >= j

\* scr_checkpoint_delete on every process
scr_checkpoint_delete(map, k) ==
    [map EXCEPT ![k] = [p \in InitProcs |-> [r \in InitProcs |-> NoEntry]]]

\* a checkpoint is recoverable from a cache if every rank's descriptor is held
\* somewhere and every rank's complete file set is held somewhere, where XOR
\* tolerates one rank whose set is held nowhere
Recoverable(ckmap, copy) ==
    LET held == {r \in InitProcs : \E p \in InitProcs :
                    /\ scr_bool_have_files(ckmap[p], r)
                    /\ ckmap[p][r].listed = DistFilesOf(r)}
    IN /\ \A r \in InitProcs : \E p \in InitProcs : ckmap[p][r].present
       /\ IF copy = SCR_COPY_XOR
          THEN Cardinality(InitProcs \ held) <= 1
          ELSE held = InitProcs

\* the cache a stopped run leaves behind: MaxCkpts checkpoints, each in the
\* balanced layout of the copy type
InitInit ==
    /\ IdleXor
    /\ IdleDist
    /\ IdleFilemap
    /\ IdleFlush
    /\ IdleEvict
    /\ IdleCkpt
    /\ IdleAttempt
    /\ IdleFetch
    /\ IdleXfer
    /\ IdleHalt
    /\ IdleScatter
    /\ IdleDesc
    /\ IdleWait
    /\ IdleExchange
    /\ IdleWindow
    /\ IdleMove
    /\ init_pc = "crashed"
    /\ init_copy \in {SCR_COPY_PARTNER, SCR_COPY_XOR}
    /\ init_map = [k \in Ckpts |-> BalancedMap(InitRanks, init_copy)]
    /\ init_faults = 0
    /\ init_usable = {}
    /\ init_tried = <<>>
    /\ init_rc = SCR_FAILURE
    /\ init_checkpoint_id = [p \in InitProcs |-> 0]
    /\ scr_global_restart = FALSE
    /\ init_fetch = "none"
    /\ init_ret = [p \in InitProcs |-> "none"]

\* the node of process p is replaced: its cache is empty for every checkpoint
InitNodeLoss(p) ==
    /\ init_pc = "crashed"
    /\ init_faults < MaxFaults
    /\ \E k \in Ckpts : in_filemap(init_map, k, p)
    /\ init_map' = [k \in Ckpts |->
                      [init_map[k] EXCEPT ![p] = [r \in InitProcs |-> NoEntry]]]
    /\ init_faults' = init_faults + 1
    /\ UNCHANGED <<init_pc, init_copy, init_usable, init_tried, init_rc,
                   init_checkpoint_id, scr_global_restart>>
    /\ UNCHANGED tailVars

\* a file of rank r of checkpoint k in the cache of process p is lost
InitLoseFile(k, p, r) ==
    /\ init_pc = "crashed"
    /\ init_faults < MaxFaults
    /\ \E f \in init_map[k][p][r].valid :
          init_map' = [init_map EXCEPT ![k][p][r].valid = @ \ {f}]
    /\ init_faults' = init_faults + 1
    /\ UNCHANGED <<init_pc, init_copy, init_usable, init_tried, init_rc,
                   init_checkpoint_id, scr_global_restart>>
    /\ UNCHANGED tailVars

\* SCR_Init reaches the restart loop
InitEnterLoop ==
    /\ init_pc = "crashed"
    /\ init_pc' = "loop"
    /\ init_usable' = {k \in Ckpts : Recoverable(init_map[k], init_copy)}
    /\ UNCHANGED <<init_map, init_copy, init_faults, init_tried, init_rc,
                   init_checkpoint_id, scr_global_restart>>
    /\ UNCHANGED tailVars

\* one pass of the do-while loop: clean, agree on the latest checkpoint, try
\* to distribute and rebuild it, delete it if that fails
InitAttempt ==
    /\ init_pc = "loop"
    /\ LET cleaned == Strict([k \in Ckpts |-> [p \in InitProcs |-> scr_clean_files(init_map[k][p])]])
           latest == {scr_filemap_latest_checkpoint(cleaned, p) : p \in InitProcs}
           max_id == CHOOSE x \in latest : \A y \in latest : x >= y
       IN IF max_id = -1
          THEN /\ init_pc' = "after_loop"
               /\ init_map' = cleaned
               /\ UNCHANGED <<init_tried, init_rc, init_checkpoint_id>>
          ELSE /\ init_tried' = Append(init_tried, max_id)
               /\ IF ~have_ckptdescs(cleaned[max_id], InitProcs)
                  THEN /\ init_map' = scr_checkpoint_delete(cleaned, max_id)
                       /\ UNCHANGED <<init_pc, init_rc, init_checkpoint_id>>
                  ELSE LET withdesc == Strict(record_ckptdescs(cleaned[max_id], InitProcs))
                           offers == Strict(offer_table(withdesc, InitProcs))
                           cands == [q \in InitProcs |->
                                       retrieve_candidates(offers, InitProcs, q)]
                       IN \E choice \in retrieve_choices(cands, InitRanks) :
                            LET res == scr_rebuild_files(
                                    scr_distribute_files(withdesc, init_copy,
                                                         InitProcs, choice),
                                    init_copy, InitProcs)
                            IN /\ init_rc' = res.rc
                               /\ IF res.rc = SCR_SUCCESS
                                  THEN /\ init_checkpoint_id' = [p \in InitProcs |-> max_id]
                                       /\ init_map' = [cleaned EXCEPT ![max_id] = res.map]
                                       /\ init_pc' = "after_loop"
                                  ELSE /\ init_map' = scr_checkpoint_delete(
                                              [cleaned EXCEPT ![max_id] = res.map], max_id)
                                       /\ UNCHANGED <<init_pc, init_checkpoint_id>>
    /\ UNCHANGED <<init_copy, init_faults, init_usable, scr_global_restart>>
    /\ UNCHANGED tailVars

\* after the loop: delete the checkpoints other than the restored one, and
\* clear the cache if the restart failed or must come from the file system
\* (SCR_GLOBAL_RESTART, whose value is read here)
InitFinish ==
    /\ init_pc = "after_loop"
    /\ init_pc' = "done"
    /\ scr_global_restart' \in BOOLEAN
    /\ IF init_rc # SCR_SUCCESS \/ scr_global_restart'
       THEN /\ init_map' = [k \in Ckpts |-> [p \in InitProcs |-> [r \in InitProcs |-> NoEntry]]]
            /\ init_checkpoint_id' = [p \in InitProcs |-> 0]
       ELSE /\ init_map' = [k \in Ckpts |->
                              IF k = init_checkpoint_id[0] THEN init_map[k]
                              ELSE [p \in InitProcs |-> [r \in InitProcs |-> NoEntry]]]
            /\ UNCHANGED init_checkpoint_id
    /\ UNCHANGED <<init_copy, init_faults, init_usable, init_tried, init_rc>>
    /\ UNCHANGED tailVars

\* a fetch that ends the cache of scr_map as scr_fetch_files leaves it: with
\* the files of checkpoint k on every rank
fetched_map(map, k) ==
    [map EXCEPT ![k] = [p \in InitProcs |->
                          [r \in InitProcs |-> IF r = p THEN FullEntry(p) ELSE NoEntry]]]

RECURSIVE fetched_maps(_, _)
fetched_maps(map, ks) ==
    IF ks = {} THEN map
    ELSE LET k == CHOOSE x \in ks : TRUE
         IN fetched_maps(fetched_map(map, k), ks \ {k})

\* a return that leaves the cache as it is
init_keep_cache(rc, map) == map

\* if the fetch fails, clear the cache: scr_unlink_all
init_clear_cache(rc, map) ==
    IF rc # SCR_SUCCESS
    THEN [k \in Ckpts |-> [p \in InitProcs |-> [r \in InitProcs |-> NoEntry]]]
    ELSE map

\* the fetch loop of SCR_Init, entered when the restart from cache failed
\* and SCR_FETCH is set (a global restart unsets it): it ends with one
\* checkpoint fetched, or with every try failed; a try that fails in
\* scr_copy_files leaves its files in the cache
InitTryFetch ==
    /\ init_pc = "done"
    /\ init_pc' = "fetched"
    /\ \E scr_fetch \in BOOLEAN :
          /\ scr_global_restart => ~scr_fetch
          /\ IF init_rc # SCR_SUCCESS /\ scr_fetch
             THEN \E left \in SUBSET Ckpts : \E ok \in BOOLEAN :
                    IF ok /\ left # Ckpts
                    THEN \E k \in Ckpts \ left :
                           /\ init_fetch' = "fetched"
                           /\ init_rc' = SCR_SUCCESS
                           /\ init_map' = fetched_maps(init_map, left \cup {k})
                           /\ init_checkpoint_id' = [p \in InitProcs |-> k]
                    ELSE /\ init_fetch' = "failed"
                         /\ init_rc' = SCR_FAILURE
                         /\ init_map' = fetched_maps(init_map, left)
                         /\ UNCHANGED init_checkpoint_id
             ELSE /\ init_fetch' = IF init_rc # SCR_SUCCESS THEN "disabled" ELSE "skipped"
                  /\ UNCHANGED <<init_rc, init_map, init_checkpoint_id>>
    /\ UNCHANGED <<init_copy, init_faults, init_usable, init_tried, init_ret,
                   scr_global_restart>>

\* the end of SCR_Init: clear the cache if the fetch failed, then return
\* success whether or not a checkpoint was restored
InitReturn ==
    /\ init_pc = "fetched"
    /\ init_pc' = "returned"
    /\ init_map' = init_clear_cache(init_rc, init_map)
    /\ init_checkpoint_id' = IF init_rc # SCR_SUCCESS
                             THEN [p \in InitProcs |-> 0] ELSE init_checkpoint_id
    /\ init_rc' = SCR_SUCCESS
    /\ init_ret' = [p \in InitProcs |-> SCR_SUCCESS]
    /\ UNCHANGED <<init_copy, init_faults, init_usable, init_tried, init_fetch,
                   scr_global_restart>>

NextInit ==
    /\ \/ \E p \in InitProcs : InitNodeLoss(p)
       \/ \E k \in Ckpts, p, r \in InitProcs : InitLoseFile(k, p, r)
       \/ InitEnterLoop
       \/ InitAttempt
       \/ InitFinish
       \/ InitTryFetch
       \/ InitReturn
    /\ UNCHANGED <<xorVars, distVars, fmVars, flushVars, evictVars, ckptVars,
                   attemptVars, fetchVars, xferVars, haltVars, scatterVars,
                   descVars, waitVars, exVars, swVars, moveVars>>

SpecInit == InitInit /\ [][NextInit]_vars

\* the highest checkpoint that was recoverable when SCR_Init began, 0 if none
HighestUsable == SetMax(init_usable)

\* C3: the checkpoint SCR_Init restores from cache is the highest-numbered
\* cached checkpoint that is recoverable: the loop tries the checkpoints in
\* strictly descending id order, the first success becomes scr_checkpoint_id
\* on every rank, and no lower checkpoint is restored while a higher one is
\* recoverable.
C3_RestoresHighestRecoverable ==
    /\ \A i, j \in 1..Len(init_tried) : i < j => init_tried[i] > init_tried[j]
    /\ (init_pc = "after_loop" \/ (init_pc = "done" /\ ~scr_global_restart)) =>
          /\ \A p \in InitProcs : init_checkpoint_id[p] = HighestUsable
          /\ (init_rc = SCR_SUCCESS) = (init_usable # {})
          /\ \A k \in init_usable : k <= init_checkpoint_id[0]
          /\ init_checkpoint_id[0] # 0 =>
                init_tried[Len(init_tried)] = init_checkpoint_id[0]

\* the loop gave up on a higher cached checkpoint and restored a lower one
C3_Witness ==
    /\ init_pc = "done"
    /\ ~scr_global_restart
    /\ Len(init_tried) >= 2
    /\ init_checkpoint_id[0] = init_tried[Len(init_tried)]
    /\ init_checkpoint_id[0] # 0
    /\ init_tried[1] \notin init_usable
    /\ \A p \in InitProcs : scr_bool_have_files(init_map[init_checkpoint_id[0]][p], p)

(***************************************************************************)
(* The filemap of one process: registration, creation and removal of the   *)
(* files of a checkpoint directory, with crashes and restarts              *)
(***************************************************************************)
FmIdx == 1..MaxFmFiles

\* the names of the files of a checkpoint directory: the files of our own
\* rank, our XOR chunk file, the copies of the partner's files, and the
\* files of our own rank under the path of this run when that path changed
UserFile(i) == <<"ckpt", i>>
XorFile == <<"xor", 1>>
PartnerFile(i) == <<"partner", i>>
MovedFile(i) == <<"moved", i>>

\* the rank a listed file belongs to: partner copies to the left partner
FmRankOf(f) == IF f[1] = "partner" THEN "lhs" ELSE "me"

\* scr_filemap_write without effect: the filemap file keeps its old content
scr_filemap_write_lost(map, disk) == disk

\* scr_filemap_write(scr_map_file, map): the content of the filemap file
scr_filemap_write(map, disk) == map

\* the files that exist after the library creates the files made, and the
\* record of those that the filemap file did not list at that moment
FmCreate(made, gone) ==
    /\ fm_cache' = (fm_cache \ gone) \cup made
    /\ fm_unlisted' = fm_unlisted \cup (made \ fm_disk)

\* scr_filemap_add_file followed by scr_filemap_write
FmRegister(files) ==
    /\ fm_map' = fm_map \cup files
    /\ fm_disk' = scr_filemap_write(fm_map \cup files, fm_disk)

\* scr_filemap_remove_file followed by scr_filemap_write
FmUnregister(files) ==
    /\ fm_map' = fm_map \ files
    /\ fm_disk' = scr_filemap_write(fm_map \ files, fm_disk)

\* the number of files of a kind among a set of names
FmCount(files, kind) == Cardinality({f \in files : f[1] = kind})

InitFilemap ==
    /\ IdleXor
    /\ IdleDist
    /\ IdleInit
    /\ IdleFlush
    /\ IdleEvict
    /\ IdleCkpt
    /\ IdleAttempt
    /\ IdleFetch
    /\ IdleXfer
    /\ IdleHalt
    /\ IdleScatter
    /\ IdleDesc
    /\ IdleWait
    /\ IdleTail
    /\ IdleExchange
    /\ IdleWindow
    /\ IdleMove
    /\ fm_pc = "idle"
    /\ fm_copy \in {SCR_COPY_PARTNER, SCR_COPY_XOR}
    /\ fm_i = 0
    /\ fm_map = {}
    /\ fm_disk = {}
    /\ fm_cache = {}
    /\ fm_unlisted = {}

\* SCR_Route_file: the application asks where to write its next file
RouteFile ==
    /\ fm_pc = "idle"
    /\ FmCount(fm_map, "moved") = 0
    /\ FmCount(fm_map, "ckpt") < MaxFmFiles
    /\ FmRegister({UserFile(FmCount(fm_map, "ckpt") + 1)})
    /\ UNCHANGED <<fm_pc, fm_copy, fm_i, fm_cache, fm_unlisted>>

\* the application writes a file it has routed
AppWrite(i) ==
    /\ fm_pc = "idle"
    /\ UserFile(i) \in fm_map
    /\ UserFile(i) \notin fm_cache
    /\ fm_cache' = fm_cache \cup {UserFile(i)}
    /\ UNCHANGED <<fm_pc, fm_copy, fm_i, fm_map, fm_disk, fm_unlisted>>

\* scr_copy_xor: record the chunk file in the filemap
CopyXorRegister ==
    /\ fm_pc = "idle"
    /\ fm_copy = SCR_COPY_XOR
    /\ fm_pc' = "xor_open"
    /\ FmRegister({XorFile})
    /\ UNCHANGED <<fm_copy, fm_i, fm_cache, fm_unlisted>>

\* scr_copy_xor: open the chunk file
CopyXorOpen ==
    /\ fm_pc = "xor_open"
    /\ fm_pc' = "idle"
    /\ FmCreate({XorFile}, {})
    /\ UNCHANGED <<fm_copy, fm_i, fm_map, fm_disk>>

\* scr_copy_partner: record the partner's descriptor and file count
CopyPartnerStart ==
    /\ fm_pc = "idle"
    /\ fm_copy = SCR_COPY_PARTNER
    /\ fm_pc' = "partner_register"
    /\ fm_i' = 0
    /\ fm_disk' = scr_filemap_write(fm_map, fm_disk)
    /\ UNCHANGED <<fm_copy, fm_map, fm_cache, fm_unlisted>>

\* scr_copy_partner: record the name of the next file of the partner
CopyPartnerRegister ==
    /\ fm_pc = "partner_register"
    /\ fm_i < MaxFmFiles
    /\ fm_pc' = "partner_swap"
    /\ FmRegister({PartnerFile(fm_i + 1)})
    /\ UNCHANGED <<fm_copy, fm_i, fm_cache, fm_unlisted>>

\* scr_copy_partner: scr_swap_files(COPY_FILES) receives the file
CopyPartnerSwap ==
    /\ fm_pc = "partner_swap"
    /\ fm_pc' = "partner_register"
    /\ fm_i' = fm_i + 1
    /\ FmCreate({PartnerFile(fm_i + 1)}, {})
    /\ UNCHANGED <<fm_copy, fm_map, fm_disk>>

\* scr_copy_partner: the partner has no more files
CopyPartnerEnd ==
    /\ fm_pc = "partner_register"
    /\ fm_pc' = "idle"
    /\ fm_i' = 0
    /\ UNCHANGED <<fm_copy, fm_map, fm_disk, fm_cache, fm_unlisted>>

\* scr_checkpoint_delete: unlink every listed file
CheckpointDeleteUnlink ==
    /\ fm_pc = "idle"
    /\ fm_map # {}
    /\ fm_pc' = "delete_unregister"
    /\ fm_cache' = fm_cache \ fm_map
    /\ UNCHANGED <<fm_copy, fm_i, fm_map, fm_disk, fm_unlisted>>

\* scr_checkpoint_delete: remove the checkpoint from the filemap
CheckpointDeleteUnregister ==
    /\ fm_pc = "delete_unregister"
    /\ fm_pc' = "idle"
    /\ FmUnregister(fm_map)
    /\ UNCHANGED <<fm_copy, fm_i, fm_cache, fm_unlisted>>

\* the job dies at any step; the node may be lost with its storage
Crash ==
    /\ fm_pc # "down"
    /\ fm_pc' = "down"
    /\ fm_i' = 0
    /\ fm_map' = {}
    /\ \/ UNCHANGED <<fm_disk, fm_cache>>
       \/ fm_disk' = {} /\ fm_cache' = {}
    /\ UNCHANGED <<fm_copy, fm_unlisted>>

\* scr_scatter_filemaps: the master reads the filemap files and unlinks them
ScatterRead ==
    /\ fm_pc = "down"
    /\ fm_pc' = "scatter"
    /\ fm_map' = fm_disk
    /\ fm_disk' = {}
    /\ UNCHANGED <<fm_copy, fm_i, fm_cache, fm_unlisted>>

\* scr_scatter_filemaps: every process writes the filemap it was sent
ScatterWrite ==
    /\ fm_pc = "scatter"
    /\ fm_pc' = "restart"
    /\ fm_disk' = IF fm_map # {} THEN scr_filemap_write(fm_map, fm_disk) ELSE fm_disk
    /\ UNCHANGED <<fm_copy, fm_i, fm_map, fm_cache, fm_unlisted>>

\* scr_clean_files: the files of a rank that misses a file are deleted and
\* the rank keeps no file in the filemap
CleanFiles ==
    /\ fm_pc = "restart"
    /\ fm_pc' = "distribute"
    /\ LET bad == {f \in fm_map : \E g \in fm_map :
                      FmRankOf(g) = FmRankOf(f) /\ g \notin fm_cache}
       IN /\ fm_cache' = fm_cache \ bad
          /\ FmUnregister(bad)
    /\ UNCHANGED <<fm_copy, fm_i, fm_unlisted>>

\* the files of our own rank that the filemap lists under another path
FmToRename == {i \in FmIdx : UserFile(i) \in fm_map}

\* scr_distribute_files, the next file of our own under another path:
\* record the new name
DistRenameRegister ==
    /\ fm_pc = "distribute"
    /\ FmToRename # {}
    /\ fm_pc' = "rename"
    /\ fm_i' = CHOOSE i \in FmToRename : \A j \in FmToRename : i <= j
    /\ FmRegister({MovedFile(fm_i')})
    /\ UNCHANGED <<fm_copy, fm_cache, fm_unlisted>>

\* rename(file, newfile)
DistRename ==
    /\ fm_pc = "rename"
    /\ fm_pc' = "rename_unregister"
    /\ IF UserFile(fm_i) \in fm_cache
       THEN FmCreate({MovedFile(fm_i)}, {UserFile(fm_i)})
       ELSE UNCHANGED <<fm_cache, fm_unlisted>>
    /\ UNCHANGED <<fm_copy, fm_i, fm_map, fm_disk>>

\* remove the old name from the filemap
DistRenameUnregister ==
    /\ fm_pc = "rename_unregister"
    /\ fm_pc' = "distribute"
    /\ fm_i' = 0
    /\ FmUnregister({UserFile(fm_i)})
    /\ UNCHANGED <<fm_copy, fm_cache, fm_unlisted>>

\* scr_distribute_files, our files are held by another process: record the
\* name of the next file to arrive
DistRecvRegister ==
    /\ \/ fm_pc = "distribute" /\ {f \in fm_map : FmRankOf(f) = "me"} = {}
       \/ fm_pc = "recv_next"
    /\ fm_i < MaxFmFiles
    /\ fm_pc' = "recv_swap"
    /\ FmRegister({UserFile(fm_i + 1)})
    /\ UNCHANGED <<fm_copy, fm_i, fm_cache, fm_unlisted>>

\* scr_swap_files(MOVE_FILES): the file arrives; the file sent at the same
\* time (a copy held for the partner) is consumed
DistRecvSwap ==
    /\ fm_pc = "recv_swap"
    /\ fm_pc' = "recv_unregister"
    /\ FmCreate({UserFile(fm_i + 1)}, {PartnerFile(fm_i + 1)})
    /\ UNCHANGED <<fm_copy, fm_i, fm_map, fm_disk>>

\* remove the name of the file sent from the filemap
DistRecvUnregister ==
    /\ fm_pc = "recv_unregister"
    /\ fm_pc' = "recv_next"
    /\ fm_i' = fm_i + 1
    /\ FmUnregister({PartnerFile(fm_i + 1)})
    /\ UNCHANGED <<fm_copy, fm_cache, fm_unlisted>>

\* scr_distribute_files returns
DistEnd ==
    /\ fm_pc \in {"distribute", "recv_next"}
    /\ fm_pc' = "rebuild"
    /\ fm_i' = 0
    /\ UNCHANGED <<fm_copy, fm_map, fm_disk, fm_cache, fm_unlisted>>

\* scr_rebuild_xor on the process that lost its files: record the chunk file
\* and the n files named in the partner's header
RebuildRegister(n) ==
    /\ fm_pc = "rebuild"
    /\ fm_copy = SCR_COPY_XOR
    /\ fm_map = {}
    /\ fm_pc' = "rebuild_open"
    /\ fm_i' = n
    /\ FmRegister({XorFile} \cup {UserFile(i) : i \in 1..n})
    /\ UNCHANGED <<fm_copy, fm_cache, fm_unlisted>>

\* scr_rebuild_xor: open the chunk file and the files for writing
RebuildOpen ==
    /\ fm_pc = "rebuild_open"
    /\ fm_pc' = "idle"
    /\ fm_i' = 0
    /\ FmCreate({XorFile} \cup {UserFile(i) : i \in 1..fm_i}, {})
    /\ UNCHANGED <<fm_copy, fm_map, fm_disk>>

\* the cache could not be restored: scr_unlink_all, then fetch
RebuildFailed ==
    /\ fm_pc = "rebuild"
    /\ fm_pc' = "fetch"
    /\ fm_i' = 0
    /\ fm_cache' = fm_cache \ fm_map
    /\ FmUnregister(fm_map)
    /\ UNCHANGED <<fm_copy, fm_unlisted>>

\* nothing to rebuild
RebuildNone ==
    /\ fm_pc = "rebuild"
    /\ fm_pc' = "idle"
    /\ UNCHANGED <<fm_copy, fm_i, fm_map, fm_disk, fm_cache, fm_unlisted>>

\* scr_fetch_files: record the next file before fetching it
FetchRegister ==
    /\ fm_pc = "fetch"
    /\ fm_i < MaxFmFiles
    /\ fm_pc' = "fetch_file"
    /\ FmRegister({UserFile(fm_i + 1)})
    /\ UNCHANGED <<fm_copy, fm_i, fm_cache, fm_unlisted>>

\* scr_fetch_a_file
FetchFile ==
    /\ fm_pc = "fetch_file"
    /\ fm_pc' = "fetch"
    /\ fm_i' = fm_i + 1
    /\ FmCreate({UserFile(fm_i + 1)}, {})
    /\ UNCHANGED <<fm_copy, fm_map, fm_disk>>

\* scr_fetch_files returns
FetchEnd ==
    /\ fm_pc = "fetch"
    /\ fm_pc' = "idle"
    /\ fm_i' = 0
    /\ UNCHANGED <<fm_copy, fm_map, fm_disk, fm_cache, fm_unlisted>>

NextFilemap ==
    /\ \/ RouteFile
       \/ \E i \in FmIdx : AppWrite(i)
       \/ CopyXorRegister
       \/ CopyXorOpen
       \/ CopyPartnerStart
       \/ CopyPartnerRegister
       \/ CopyPartnerSwap
       \/ CopyPartnerEnd
       \/ CheckpointDeleteUnlink
       \/ CheckpointDeleteUnregister
       \/ Crash
       \/ ScatterRead
       \/ ScatterWrite
       \/ CleanFiles
       \/ DistRenameRegister
       \/ DistRename
       \/ DistRenameUnregister
       \/ DistRecvRegister
       \/ DistRecvSwap
       \/ DistRecvUnregister
       \/ DistEnd
       \/ \E n \in 0..MaxFmFiles : RebuildRegister(n)
       \/ RebuildOpen
       \/ RebuildFailed
       \/ RebuildNone
       \/ FetchRegister
       \/ FetchFile
       \/ FetchEnd
    /\ UNCHANGED <<xorVars, distVars, initVars, flushVars, evictVars,
                   ckptVars, attemptVars, fetchVars, xferVars, haltVars,
                   scatterVars, descVars, waitVars, tailVars, exVars, swVars,
                   moveVars>>

SpecFilemap == InitFilemap /\ [][NextFilemap]_vars

\* C4: every file the library creates in a checkpoint's cache directory (XOR
\* chunk file, partner copy, rebuilt file, file received or renamed during
\* distribute, fetched file) was listed in the filemap file of the process
\* before the file came to exist, in every state including those a crash
\* leaves.
C4_ListedBeforeCreated ==
    fm_unlisted = {}

\* a crash right after the library moved a file and received a partner copy:
\* the files are on disk and the filemap file lists them
C4_Witness ==
    /\ fm_pc = "down"
    /\ \E i \in FmIdx : MovedFile(i) \in fm_cache
    /\ \E i \in FmIdx : PartnerFile(i) \in fm_cache
    /\ {f \in fm_cache : f[1] # "ckpt"} \subseteq fm_disk
    /\ fm_unlisted = {}

(***************************************************************************)
(* SpecFlush: the flush file of each node, the synchronous flush           *)
(* (scr_flush_files), the asynchronous flush (scr_flush_async_start,       *)
(* _test, _complete, _stop, _wait), the summary file, index file and       *)
(* scr.current link in the prefix directory, and the eviction of cached    *)
(* checkpoints, over several runs of the job.  The calls are collective    *)
(* and the ranks of a run move through them together, so the model follows *)
(* one call stack.  fl_pc holds the step the job is at followed by the     *)
(* steps to return to.  Checkpoints are flushed every scr_flush            *)
(* checkpoints; SCR_FETCH is on and SCR_FLUSH_ON_RESTART is off.           *)
(***************************************************************************)
MaxNodes == 2
MaxCkptId == 2
MaxDirs == 2
MaxRuns == 2
MaxCacheSize == 2

scr_flush == 1

FlNodes == 1..MaxNodes
FlIds == 1..MaxCkptId
\* the numbers of ranks a run of the job can have; only their being equal
\* or not matters, so the first run has the first of them
FlWorlds == {MaxNodes, MaxNodes + MaxNodes}

SCR_FLUSH_KEY_LOCATION_CACHE == "CACHE"
SCR_FLUSH_KEY_LOCATION_PFS == "PFS"
SCR_FLUSH_KEY_LOCATION_FLUSHING == "FLUSHING"

At(label) == Len(fl_pc) > 0 /\ fl_pc[1] = label

\* the master of every node adds the location to the entry of its flush file
scr_flush_location_set(ff, k, loc) ==
    [n \in FlNodes |-> [ff[n] EXCEPT ![k] = @ \cup {loc}]]

scr_flush_location_kept(ff, k, loc) == ff

\* the master of every node removes the location from the entry
scr_flush_location_unset(ff, k, loc) ==
    [n \in FlNodes |-> [ff[n] EXCEPT ![k] = @ \ {loc}]]

\* the master of every node removes the entries of the checkpoints in S
scr_flush_checkpoint_remove(ff, S) ==
    [n \in FlNodes |-> [k \in FlIds |-> IF k \in S THEN {} ELSE ff[n][k]]]

\* the flush file lists the checkpoint in cache and not on the file system;
\* each node reads its own file, and the files of a run agree
scr_bool_need_flush(ff, k) ==
    /\ k \in FlIds
    /\ \A n \in FlNodes :
          /\ SCR_FLUSH_KEY_LOCATION_CACHE \in ff[n][k]
          /\ SCR_FLUSH_KEY_LOCATION_PFS \notin ff[n][k]

\* some node's flush file marks the checkpoint FLUSHING
scr_bool_is_flushing(ff, k) ==
    \E n \in FlNodes :
       /\ k \in DOMAIN ff[n]
       /\ SCR_FLUSH_KEY_LOCATION_FLUSHING \in ff[n][k]

\* the check of the ranks field of a file's meta data in scr_bool_have_file
have_file_any_ranks(meta_ranks, ranks) == meta_ranks # 0

scr_bool_have_file_ranks(meta_ranks, ranks) == meta_ranks = ranks

FlCached(cache) == {k \in FlIds : cache[k] # 0}

\* the part of scr_checkpoint_delete that removes the files from the cache
cache_delete(cache, S) == [k \in FlIds |-> IF k \in S THEN 0 ELSE cache[k]]

NewDir(k) ==
    [id |-> k, ranks |-> 0, complete |-> FALSE, index |-> FALSE, linked |-> FALSE]

\* scr_summary_read accepts the summary file of directory d
scr_summary_read(dirs, d, world) ==
    /\ d \in 1..Len(dirs)
    /\ dirs[d].complete
    /\ dirs[d].ranks = world

\* the directory SCR_Init fetches from: the target of scr.current, else the
\* most recent older directory the index file marks complete; 0 if none
fetch_target(dirs, current, world) ==
    IF scr_summary_read(dirs, current, world) THEN current
    ELSE LET cand == {d \in 1..Len(dirs) :
                         /\ dirs[d].index
                         /\ scr_summary_read(dirs, d, world)
                         /\ (current # 0 => dirs[d].id < dirs[current].id)}
         IN IF cand = {} THEN 0
            ELSE CHOOSE d \in cand :
                    \A e \in cand : <<dirs[d].id, d>> = <<dirs[e].id, e>>
                       \/ dirs[d].id > dirs[e].id
                       \/ (dirs[d].id = dirs[e].id /\ d > e)

RECURSIVE evict_loop_no_skip(_, _, _, _, _)
evict_loop_no_skip(ckpts, i, st, size, ff) ==
    IF i > Len(ckpts) \/ st.nckpts_base < size THEN st
    ELSE evict_loop_no_skip(ckpts, i + 1,
                            [st EXCEPT !.nckpts_base = @ - 1,
                                       !.deleted = @ \cup {ckpts[i]}], size, ff)

\* the loop of SCR_Start_checkpoint that deletes checkpoints until there is
\* room, skipping those marked FLUSHING and remembering the first of them
RECURSIVE evict_loop(_, _, _, _, _)
evict_loop(ckpts, i, st, size, ff) ==
    IF i > Len(ckpts) \/ st.nckpts_base < size THEN st
    ELSE IF ~scr_bool_is_flushing(ff, ckpts[i])
         THEN evict_loop(ckpts, i + 1,
                         [st EXCEPT !.nckpts_base = @ - 1,
                                    !.deleted = @ \cup {ckpts[i]}], size, ff)
         ELSE evict_loop(ckpts, i + 1,
                         [st EXCEPT !.flushing = IF @ = -1 THEN ckpts[i] ELSE @],
                         size, ff)

\* the transfer file lists every file of the flush as written
scr_flush_async_test(transfer) == transfer = "written"

wait_returns_at_once(in_progress, ff, k) == TRUE

\* scr_flush_async_wait returns: no flush is recorded, or the recorded id is
\* no longer marked FLUSHING
scr_flush_async_wait_done(in_progress, ff, k) ==
    ~in_progress \/ ~scr_bool_is_flushing(ff, k)

check_flush_never_waits(in_progress) == FALSE

\* scr_check_flush waits before it starts a flush if one is in progress
check_flush_waits(in_progress) == in_progress

\* the value of flushed in scr_flush_files after the files were copied: the
\* value returned by scr_flush_files_list is not assigned to it
flushed_after_copy(list_rc) == SCR_SUCCESS

\* the steps that write the summary file, the index file and the link, then
\* the step that marks the flush file
Publish(mark) == <<"summary", "index", "symlink", mark>>

flCfg == <<scr_ranks_world, scr_flush_async, scr_cache_size, fl_runs>>
flAsync == <<scr_flush_async_in_progress, scr_flush_async_checkpoint_id>>
flPfs == <<fl_dirs, fl_current>>
flOpen == <<fl_started, fl_open>>

InitFlush ==
    /\ IdleXor
    /\ IdleDist
    /\ IdleInit
    /\ IdleFilemap
    /\ IdleEvict
    /\ IdleCkpt
    /\ IdleAttempt
    /\ IdleFetch
    /\ IdleXfer
    /\ IdleHalt
    /\ IdleScatter
    /\ IdleDesc
    /\ IdleWait
    /\ IdleTail
    /\ IdleExchange
    /\ IdleWindow
    /\ IdleMove
    /\ fl_pc = <<"down">>
    /\ scr_ranks_world = MaxNodes
    /\ scr_flush_async \in BOOLEAN
    /\ scr_cache_size \in 0..MaxCacheSize
    /\ scr_checkpoint_id = 0
    /\ scr_flush_async_in_progress = FALSE
    /\ scr_flush_async_checkpoint_id = -1
    /\ fl_flushing = -1
    /\ flush_file = [n \in FlNodes |-> [k \in FlIds |-> {}]]
    /\ fl_cache = [k \in FlIds |-> 0]
    /\ fl_transfer = "none"
    /\ fl_dirs = <<>>
    /\ fl_current = 0
    /\ fl_dir = 0
    /\ fl_started = {}
    /\ fl_open = {}
    /\ fl_req = <<>>
    /\ fl_evicted = {}
    /\ fl_sync = <<>>
    /\ fl_start = <<>>
    /\ fl_runs = 0

\* SCR_Init up to the end of its restart section: it stops the transfer of a
\* previous run, restores the most recent cached checkpoint r whose files it
\* can rebuild (0 if none), deleting the more recent ones that fail and then
\* the older ones, and otherwise clears the cache.
FlSCR_Init ==
    /\ At("down")
    /\ fl_runs < MaxRuns
    /\ fl_runs' = fl_runs + 1
    /\ \E world \in (IF fl_runs = 0 THEN {MaxNodes} ELSE FlWorlds) :
       \E r \in {0} \cup {k \in FlIds : scr_bool_have_file_ranks(fl_cache[k], world)} :
          LET in_pfs == \E n \in FlNodes :
                           SCR_FLUSH_KEY_LOCATION_PFS \in flush_file[n][r]
              gone == FlCached(fl_cache) \ {r}
              kept == scr_flush_checkpoint_remove(flush_file, FlIds \ {r})
              cached == scr_flush_location_set(kept, r, SCR_FLUSH_KEY_LOCATION_CACHE)
              marked == IF in_pfs
                        THEN scr_flush_location_set(cached, r, SCR_FLUSH_KEY_LOCATION_PFS)
                        ELSE cached
          IN /\ scr_ranks_world' = world
             /\ fl_transfer' = IF scr_flush_async THEN "none" ELSE fl_transfer
             /\ scr_checkpoint_id' = r
             /\ fl_cache' = cache_delete(fl_cache, FlIds \ {r})
             /\ flush_file' =
                   IF r = 0 THEN scr_flush_checkpoint_remove(flush_file, FlIds)
                   ELSE scr_flush_location_unset(marked, r,
                                                 SCR_FLUSH_KEY_LOCATION_FLUSHING)
             /\ fl_open' = fl_open \ (gone \cup {r})
             /\ fl_pc' = IF r = 0 THEN <<"fetch">> ELSE <<"check_flush", "app">>
    /\ UNCHANGED <<scr_flush_async, scr_cache_size, flAsync, fl_flushing, flPfs,
                   fl_dir, fl_started, fl_req, fl_evicted, fl_sync,
                   fl_start>>

\* the fetch of SCR_Init after the restart from cache failed
FlFetch ==
    /\ At("fetch")
    /\ LET d == fetch_target(fl_dirs, fl_current, scr_ranks_world)
           k == fl_dirs[d].id
           cached == scr_flush_location_set(flush_file, k, SCR_FLUSH_KEY_LOCATION_CACHE)
           marked == scr_flush_location_set(cached, k, SCR_FLUSH_KEY_LOCATION_PFS)
       IN IF d = 0
          THEN /\ fl_current' = 0
               /\ UNCHANGED <<scr_checkpoint_id, fl_cache, flush_file, fl_dirs>>
          ELSE /\ fl_current' = d
               /\ fl_dirs' = [fl_dirs EXCEPT ![d].linked = TRUE]
               /\ scr_checkpoint_id' = k
               /\ fl_cache' = [fl_cache EXCEPT ![k] = scr_ranks_world]
               /\ flush_file' = scr_flush_location_unset(marked, k,
                                                 SCR_FLUSH_KEY_LOCATION_FLUSHING)
    /\ fl_pc' = <<"app">>
    /\ UNCHANGED <<flCfg, flAsync, fl_flushing, fl_transfer, fl_dir, flOpen,
                   fl_req, fl_evicted, fl_sync,
                   fl_start>>

\* SCR_Start_checkpoint: the next id, and the eviction of cached checkpoints
\* up to the wait for a checkpoint that is being flushed
FlStart_checkpoint ==
    /\ At("app")
    /\ scr_checkpoint_id < MaxCkptId
    /\ LET ckpts == SortedSeq(FlCached(fl_cache))
           st == evict_loop(ckpts, 1,
                            [nckpts_base |-> Len(ckpts), flushing |-> -1,
                             deleted |-> {}],
                            scr_cache_size, flush_file)
           wait == st.nckpts_base >= scr_cache_size /\ st.flushing # -1
       IN /\ scr_checkpoint_id' = scr_checkpoint_id + 1
          /\ fl_cache' = cache_delete(fl_cache, st.deleted)
          /\ flush_file' = scr_flush_checkpoint_remove(flush_file, st.deleted)
          /\ fl_evicted' = fl_evicted \cup
                {[id |-> k, marked |-> scr_bool_is_flushing(flush_file, k),
                  waited |-> FALSE] : k \in st.deleted}
          /\ fl_flushing' = IF wait THEN st.flushing ELSE -1
          /\ fl_start' =
                [cached |-> FlCached(fl_cache),
                 flushing |-> {k \in FlCached(fl_cache) :
                                  scr_bool_is_flushing(flush_file, k)},
                 log |-> [i \in 1..Cardinality(st.deleted) |->
                            <<"evict", SortedSeq(st.deleted)[i]>>]
                         \o (IF wait THEN <<>>
                             ELSE <<<<"mkdir", scr_checkpoint_id + 1>>>>)]
          /\ fl_pc' = IF wait THEN <<"wait", "evict", "ckpt">> ELSE <<"ckpt">>
    /\ UNCHANGED <<flCfg, flAsync, fl_transfer, flPfs, fl_dir, flOpen, fl_req,
                   fl_sync>>

\* SCR_Start_checkpoint after the wait: it deletes the checkpoint it waited for
FlStartEvict ==
    /\ At("evict")
    /\ fl_cache' = cache_delete(fl_cache, {fl_flushing})
    /\ flush_file' = scr_flush_checkpoint_remove(flush_file, {fl_flushing})
    /\ fl_evicted' = fl_evicted \cup
          {[id |-> fl_flushing,
            marked |-> scr_bool_is_flushing(flush_file, fl_flushing),
            waited |-> TRUE]}
    /\ fl_flushing' = -1
    /\ fl_start' = [fl_start EXCEPT !.log = @ \o <<<<"evict", fl_flushing>>,
                                                   <<"mkdir", scr_checkpoint_id>>>>]
    /\ fl_pc' = Tail(fl_pc)
    /\ UNCHANGED <<flCfg, scr_checkpoint_id, flAsync, fl_transfer, flPfs, fl_dir,
                   flOpen, fl_req, fl_sync>>

\* scr_flush_async_wait leaves its loop
FlWaitReturn ==
    /\ At("wait")
    /\ scr_flush_async_wait_done(scr_flush_async_in_progress, flush_file,
                                 scr_flush_async_checkpoint_id)
    /\ fl_pc' = Tail(fl_pc)
    /\ UNCHANGED <<flCfg, scr_checkpoint_id, flAsync, fl_flushing, flush_file,
                   fl_cache, fl_transfer, flPfs, fl_dir, flOpen, fl_req,
                   fl_evicted, fl_sync,
                   fl_start>>

\* scr_flush_async_wait finds the transfer done and calls
\* scr_flush_async_complete; while the transfer is not done it sleeps
FlWaitComplete ==
    /\ At("wait")
    /\ ~scr_flush_async_wait_done(scr_flush_async_in_progress, flush_file,
                                  scr_flush_async_checkpoint_id)
    /\ scr_flush_async_test(fl_transfer)
    /\ fl_pc' = Publish("ac_mark") \o fl_pc
    /\ UNCHANGED <<flCfg, scr_checkpoint_id, flAsync, fl_flushing, flush_file,
                   fl_cache, fl_transfer, flPfs, fl_dir, flOpen, fl_req,
                   fl_evicted, fl_sync,
                   fl_start>>

\* scr_summary_write writes the summary file of the directory
FlSummaryWrite ==
    /\ At("summary")
    /\ fl_dirs' = [fl_dirs EXCEPT ![fl_dir].ranks = scr_ranks_world,
                                  ![fl_dir].complete = TRUE]
    /\ fl_pc' = Tail(fl_pc)
    /\ UNCHANGED <<flCfg, scr_checkpoint_id, flAsync, fl_flushing, flush_file,
                   fl_cache, fl_transfer, fl_current, fl_dir, flOpen, fl_req,
                   fl_evicted, fl_sync,
                   fl_start>>

\* scr_summary_write then marks the directory complete in the index file
FlIndexWrite ==
    /\ At("index")
    /\ fl_dirs' = [fl_dirs EXCEPT ![fl_dir].index = TRUE]
    /\ fl_pc' = Tail(fl_pc)
    /\ UNCHANGED <<flCfg, scr_checkpoint_id, flAsync, fl_flushing, flush_file,
                   fl_cache, fl_transfer, fl_current, fl_dir, flOpen, fl_req,
                   fl_evicted, fl_sync,
                   fl_start>>

\* rank 0 replaces the scr.current link by one to the directory
FlSymlink ==
    /\ At("symlink")
    /\ fl_current' = fl_dir
    /\ fl_dirs' = [fl_dirs EXCEPT ![fl_dir].linked = TRUE]
    /\ fl_pc' = Tail(fl_pc)
    /\ UNCHANGED <<flCfg, scr_checkpoint_id, flAsync, fl_flushing, flush_file,
                   fl_cache, fl_transfer, fl_dir, flOpen, fl_req, fl_evicted,
                   fl_sync,
                   fl_start>>

\* the end of scr_flush_async_complete: the checkpoint is marked PFS, the
\* flush is no longer in progress, the FLUSHING mark is removed and the
\* files are taken off the transfer file
FlAsyncCompleteMark ==
    /\ At("ac_mark")
    /\ LET k == scr_flush_async_checkpoint_id
           marked == scr_flush_location_set(flush_file, k, SCR_FLUSH_KEY_LOCATION_PFS)
       IN /\ flush_file' = scr_flush_location_unset(marked, k,
                                                 SCR_FLUSH_KEY_LOCATION_FLUSHING)
          /\ fl_started' = fl_started \ {k}
          /\ fl_open' = fl_open \ {k}
    /\ scr_flush_async_in_progress' = FALSE
    /\ fl_transfer' = "none"
    /\ fl_start' = IF fl_start = <<>> THEN fl_start
                   ELSE [fl_start EXCEPT !.log =
                           Append(@, <<"complete", scr_flush_async_checkpoint_id>>)]
    /\ fl_pc' = Tail(fl_pc)
    /\ UNCHANGED <<flCfg, scr_checkpoint_id, scr_flush_async_checkpoint_id,
                   fl_flushing, fl_cache, flPfs, fl_dir, fl_req, fl_evicted,
                   fl_sync>>

\* scr_flush_files up to the copy of the files into a new directory; a rank
\* may fail to copy a file
FlFlushFiles ==
    /\ At("sf_begin")
    /\ IF ~scr_bool_need_flush(flush_file, scr_checkpoint_id)
       THEN /\ fl_pc' = Tail(fl_pc)
            /\ UNCHANGED <<fl_dirs, fl_dir, fl_sync>>
       ELSE IF scr_flush_async_in_progress
       THEN /\ fl_pc' = <<"wait">> \o fl_pc
            /\ UNCHANGED <<fl_dirs, fl_dir, fl_sync>>
       ELSE /\ Len(fl_dirs) < MaxDirs
            /\ \E failed \in BOOLEAN :
               LET list_rc == IF failed THEN SCR_FAILURE ELSE SCR_SUCCESS
                   flushed == flushed_after_copy(list_rc)
               IN /\ fl_dirs' = Append(fl_dirs, NewDir(scr_checkpoint_id))
                  /\ fl_dir' = Len(fl_dirs) + 1
                  /\ fl_sync' = [dir |-> Len(fl_dirs) + 1, failed |-> failed,
                                 flushed |-> flushed, rc |-> "none"]
                  /\ fl_pc' = IF flushed = SCR_SUCCESS
                              THEN Publish("sf_mark") \o Tail(fl_pc)
                              ELSE <<"sf_mark">> \o Tail(fl_pc)
    /\ UNCHANGED <<flCfg, scr_checkpoint_id, flAsync, fl_flushing, flush_file,
                   fl_cache, fl_transfer, fl_current, flOpen, fl_req, fl_evicted,
                   fl_start>>

\* the end of scr_flush_files: the checkpoint is marked PFS if flushed is
\* SCR_SUCCESS, and flushed is returned
FlFlushFilesMark ==
    /\ At("sf_mark")
    /\ flush_file' = IF fl_sync.flushed = SCR_SUCCESS
                     THEN scr_flush_location_set(flush_file, scr_checkpoint_id,
                                                 SCR_FLUSH_KEY_LOCATION_PFS)
                     ELSE flush_file
    /\ fl_sync' = [fl_sync EXCEPT !.rc = fl_sync.flushed]
    /\ fl_pc' = Tail(fl_pc)
    /\ UNCHANGED <<flCfg, scr_checkpoint_id, flAsync, fl_flushing, fl_cache,
                   fl_transfer, flPfs, fl_dir, flOpen, fl_req, fl_evicted,
                   fl_start>>

\* the halt branch of scr_bool_check_halt_and_decrement and SCR_Finalize: a
\* flush in progress is stopped if it is for the current checkpoint and
\* waited for otherwise; then the current checkpoint is flushed
FlStopOrWait ==
    IF scr_flush_async_in_progress
       /\ scr_flush_async_checkpoint_id = scr_checkpoint_id
    THEN /\ scr_flush_async_in_progress' = FALSE
         /\ fl_transfer' = "none"
         /\ fl_pc' = <<"sf_begin", "exit">>
         /\ UNCHANGED scr_flush_async_checkpoint_id
    ELSE /\ fl_pc' = IF scr_flush_async_in_progress
                     THEN <<"wait", "sf_begin", "exit">>
                     ELSE <<"sf_begin", "exit">>
         /\ UNCHANGED <<flAsync, fl_transfer>>

\* SCR_Complete_checkpoint up to scr_check_flush: the redundancy scheme is
\* applied; on success the checkpoint is marked CACHE and the job may have
\* to halt, on failure the checkpoint is deleted
FlComplete_checkpoint ==
    /\ At("ckpt")
    /\ \E rc \in {SCR_SUCCESS, SCR_FAILURE}, halt \in BOOLEAN :
          IF rc = SCR_SUCCESS
          THEN /\ fl_cache' = [fl_cache EXCEPT ![scr_checkpoint_id] = scr_ranks_world]
               /\ flush_file' = scr_flush_location_set(flush_file, scr_checkpoint_id,
                                                 SCR_FLUSH_KEY_LOCATION_CACHE)
               /\ IF halt THEN FlStopOrWait
                  ELSE /\ fl_pc' = <<"check_flush", "cc_test", "app">>
                       /\ UNCHANGED <<flAsync, fl_transfer>>
          ELSE /\ fl_cache' = cache_delete(fl_cache, {scr_checkpoint_id})
               /\ flush_file' = scr_flush_checkpoint_remove(flush_file,
                                                            {scr_checkpoint_id})
               /\ fl_pc' = <<"cc_test", "app">>
               /\ UNCHANGED <<flAsync, fl_transfer>>
    /\ fl_evicted' = {}
    /\ fl_start' = <<>>
    /\ UNCHANGED <<flCfg, scr_checkpoint_id, fl_flushing, flPfs, fl_dir, flOpen,
                   fl_req, fl_sync>>

\* scr_check_flush: an asynchronous flush is started after the one in
\* progress has been waited for; otherwise the checkpoint is flushed
\* synchronously
FlCheckFlush ==
    /\ At("check_flush")
    /\ IF ~(scr_flush > 0 /\ scr_checkpoint_id > 0
            /\ scr_checkpoint_id % scr_flush = 0)
       THEN fl_pc' = Tail(fl_pc) /\ UNCHANGED fl_req
       ELSE IF scr_flush_async
       THEN /\ fl_pc' = IF check_flush_waits(scr_flush_async_in_progress)
                        THEN <<"wait", "async_start">> \o Tail(fl_pc)
                        ELSE <<"async_start">> \o Tail(fl_pc)
            /\ fl_req' = IF scr_flush_async_in_progress
                            /\ scr_flush_async_checkpoint_id # scr_checkpoint_id
                         THEN [a |-> scr_flush_async_checkpoint_id,
                               b |-> scr_checkpoint_id, started |-> FALSE]
                         ELSE fl_req
       ELSE fl_pc' = <<"sf_begin">> \o Tail(fl_pc) /\ UNCHANGED fl_req
    /\ UNCHANGED <<flCfg, scr_checkpoint_id, flAsync, fl_flushing, flush_file,
                   fl_cache, fl_transfer, flPfs, fl_dir, flOpen, fl_evicted,
                   fl_sync,
                   fl_start>>

\* scr_flush_async_start: the flush is recorded as in progress and the
\* checkpoint marked FLUSHING; then the directory is created and the files
\* are listed in the transfer file, unless the directory cannot be created
FlAsyncStart ==
    /\ At("async_start")
    /\ IF ~scr_bool_need_flush(flush_file, scr_checkpoint_id)
       THEN UNCHANGED <<flAsync, flush_file, fl_transfer, fl_dirs, fl_dir, flOpen,
                        fl_req>>
       ELSE /\ scr_flush_async_in_progress' = TRUE
            /\ scr_flush_async_checkpoint_id' = scr_checkpoint_id
            /\ flush_file' = scr_flush_location_set(flush_file, scr_checkpoint_id,
                                                 SCR_FLUSH_KEY_LOCATION_FLUSHING)
            /\ fl_started' = fl_started \cup {scr_checkpoint_id}
            /\ fl_open' = fl_open \cup {scr_checkpoint_id}
            /\ fl_req' = IF fl_req = <<>> THEN fl_req
                         ELSE [fl_req EXCEPT !.started = TRUE]
            /\ \E ok \in BOOLEAN :
                  IF ok
                  THEN /\ Len(fl_dirs) < MaxDirs
                       /\ fl_dirs' = Append(fl_dirs, NewDir(scr_checkpoint_id))
                       /\ fl_dir' = Len(fl_dirs) + 1
                       /\ fl_transfer' = "queued"
                  ELSE UNCHANGED <<fl_dirs, fl_dir, fl_transfer>>
    /\ fl_pc' = Tail(fl_pc)
    /\ UNCHANGED <<flCfg, scr_checkpoint_id, fl_flushing, fl_cache, fl_current,
                   fl_evicted, fl_sync,
                   fl_start>>

\* the end of SCR_Complete_checkpoint: a flush in progress whose transfer is
\* done is completed
FlCompleteTest ==
    /\ At("cc_test")
    /\ fl_pc' = IF scr_flush_async_in_progress /\ scr_flush_async_test(fl_transfer)
                THEN Publish("ac_mark") \o Tail(fl_pc)
                ELSE Tail(fl_pc)
    /\ fl_req' = <<>>
    /\ UNCHANGED <<flCfg, scr_checkpoint_id, flAsync, fl_flushing, flush_file,
                   fl_cache, fl_transfer, flPfs, fl_dir, flOpen, fl_evicted,
                   fl_sync,
                   fl_start>>

\* SCR_Finalize
FlFinalize ==
    /\ At("app")
    /\ FlStopOrWait
    /\ UNCHANGED <<flCfg, scr_checkpoint_id, fl_flushing, flush_file, fl_cache,
                   flPfs, fl_dir, flOpen, fl_req, fl_evicted, fl_sync,
                   fl_start>>

\* the state of a job that is not running: the variables in memory are gone
FlDown ==
    /\ fl_pc' = <<"down">>
    /\ scr_checkpoint_id' = 0
    /\ scr_flush_async_in_progress' = FALSE
    /\ scr_flush_async_checkpoint_id' = -1
    /\ fl_flushing' = -1
    /\ fl_dir' = 0
    /\ fl_req' = <<>>
    /\ fl_evicted' = {}
    /\ fl_sync' = <<>>
    /\ fl_start' = <<>>

\* the job ends: exit(0) after a halt, or the return of SCR_Finalize
FlExit ==
    /\ At("exit")
    /\ FlDown
    /\ UNCHANGED <<flCfg, flush_file, fl_cache, fl_transfer, flPfs, flOpen>>

\* the job is killed at any step; a node may be lost with its flush file
\* (the nodes are alike, so the lost node is taken to be the first)
FlCrash ==
    /\ ~At("down")
    /\ FlDown
    /\ \E lost \in {{}, {1}} :
          flush_file' = [n \in FlNodes |->
                           IF n \in lost THEN [k \in FlIds |-> {}]
                           ELSE flush_file[n]]
    /\ UNCHANGED <<flCfg, fl_cache, fl_transfer, flPfs, flOpen>>

\* while the job runs, the transfer daemon finishes writing the files listed in the transfer file
FlTransfer ==
    /\ ~At("down")
    /\ fl_transfer = "queued"
    /\ fl_transfer' = "written"
    /\ UNCHANGED <<fl_pc, flCfg, scr_checkpoint_id, flAsync, fl_flushing,
                   flush_file, fl_cache, flPfs, fl_dir, flOpen, fl_req,
                   fl_evicted, fl_sync,
                   fl_start>>

NextFlush ==
    /\ \/ FlSCR_Init
       \/ FlFetch
       \/ FlStart_checkpoint
       \/ FlStartEvict
       \/ FlWaitReturn
       \/ FlWaitComplete
       \/ FlSummaryWrite
       \/ FlIndexWrite
       \/ FlSymlink
       \/ FlAsyncCompleteMark
       \/ FlFlushFiles
       \/ FlFlushFilesMark
       \/ FlComplete_checkpoint
       \/ FlCheckFlush
       \/ FlAsyncStart
       \/ FlCompleteTest
       \/ FlFinalize
       \/ FlExit
       \/ FlCrash
       \/ FlTransfer
    /\ UNCHANGED <<xorVars, distVars, initVars, fmVars, evictVars, ckptVars,
                   attemptVars, fetchVars, xferVars, haltVars, scatterVars,
                   descVars, waitVars, tailVars, exVars, swVars, moveVars>>

SpecFlush == InitFlush /\ [][NextFlush]_vars

FlTypeOK ==
    /\ Len(fl_pc) > 0
    /\ Len(fl_dirs) <= MaxDirs
    /\ scr_checkpoint_id \in 0..MaxCkptId

\* C5 as stated: in every state a checkpoint id is marked FLUSHING in the
\* flush file exactly if an asynchronous flush of it was started by
\* scr_flush_async_start and not yet completed by scr_flush_async_complete.
C5_FlushingIffStartedNotCompleted ==
    \A k \in FlIds : scr_bool_is_flushing(flush_file, k) <=> k \in fl_started

\* C5: in every state a checkpoint id is marked FLUSHING in the flush file
\* exactly if an asynchronous flush of it was started by
\* scr_flush_async_start and since then neither scr_flush_async_complete
\* completed it nor the SCR_Init of a later run restored or deleted the
\* checkpoint.
C5_FlushingIffOpen ==
    \A k \in FlIds : scr_bool_is_flushing(flush_file, k) <=> k \in fl_open

\* a later run cleared the mark of a flush the previous run had started, and
\* has a flush of its own in progress
C5_Witness ==
    /\ fl_runs >= 2
    /\ \E k \in fl_started \ fl_open : ~scr_bool_is_flushing(flush_file, k)
    /\ \E j \in fl_open :
          /\ scr_bool_is_flushing(flush_file, j)
          /\ scr_flush_async_in_progress
          /\ scr_flush_async_checkpoint_id = j

C8_IndexAfterPublished ==
    \A d \in 1..Len(fl_dirs) :
       fl_dirs[d].index => (fl_dirs[d].ranks # 0 /\ fl_dirs[d].linked)

\* C9: when a rank failed to copy a file in scr_flush_files, the flush does
\* not return success, no summary file marked complete is written for the
\* directory, scr.current is not switched to it and the checkpoint is not
\* marked PFS.
C9_FailedCopyFailsFlush ==
    (fl_sync # <<>> /\ fl_sync.failed) =>
       /\ fl_sync.rc # SCR_SUCCESS
       /\ ~fl_dirs[fl_sync.dir].complete
       /\ fl_current # fl_sync.dir
       /\ \A n \in FlNodes :
             SCR_FLUSH_KEY_LOCATION_PFS \notin flush_file[n][fl_dirs[fl_sync.dir].id]

\* C10: no checkpoint SCR_Start_checkpoint deletes to make room is marked
\* FLUSHING in a node's flush file when scr_checkpoint_delete is called.
C10_EvictionSkipsFlushing ==
    \A e \in fl_evicted : ~e.marked

\* the cache was full of a checkpoint being flushed: SCR_Start_checkpoint
\* waited for the flush and then deleted the checkpoint
C10_Witness ==
    /\ At("ckpt")
    /\ \E e \in fl_evicted : e.waited /\ ~e.marked
    /\ fl_current # 0
    /\ ~scr_flush_async_in_progress


\* ---- the eviction of SCR_Start_checkpoint ----

\* SCR_Start_checkpoint has returned and the checkpoint is open
StartReturned == fl_start # <<>> /\ At("ckpt")

\* the checkpoints a log of SCR_Start_checkpoint evicts
EvictedIn(log) == {log[i][2] : i \in {j \in 1..Len(log) : log[j][1] = "evict"}}

\* the n lowest-numbered checkpoints of S
LowestN(S, n) == {SortedSeq(S)[i] : i \in 1..Min(n, Cardinality(S))}

\* the number of checkpoints SCR_Start_checkpoint has to evict from a cache
NeedRoom(cached, size) == Cardinality(cached) - size + 1

IsPrefix(s, t) == Len(s) <= Len(t) /\ \A i \in 1..Len(s) : s[i] = t[i]

\* C11: whenever SCR_Start_checkpoint returns, the number of checkpoints
\* cached at the base of the new checkpoint, counting the new one, is at most
\* the size configured for the base.
C11_CacheWithinSize ==
    StartReturned => Cardinality(FlCached(fl_cache)) + 1 <= scr_cache_size

\* C12: if the cache is full and the only checkpoint that can be evicted is
\* being flushed asynchronously, SCR_Start_checkpoint does not return before
\* the flush has completed, and first the flush completes, then the
\* checkpoint is evicted, then the directory of the new checkpoint is made.
C12_WaitEvictCreate ==
    (/\ fl_start # <<>>
     /\ fl_start.cached # {}
     /\ fl_start.cached = fl_start.flushing
     /\ NeedRoom(fl_start.cached, scr_cache_size) >= 1) =>
       LET k == SortedSeq(fl_start.flushing)[1]
           order == << <<"complete", k>>, <<"evict", k>>,
                       <<"mkdir", scr_checkpoint_id>> >>
       IN /\ IsPrefix(fl_start.log, order)
          /\ At("ckpt") => fl_start.log = order
          /\ Len(fl_start.log) = 0 =>
                \E i \in 1..Len(fl_pc) : fl_pc[i] = "evict"
          /\ Len(fl_start.log) >= 1 =>
                /\ ~scr_flush_async_in_progress
                /\ ~scr_bool_is_flushing(flush_file, k)

\* SCR_Start_checkpoint found the cache full of a checkpoint being flushed and
\* has returned
C12_Witness ==
    /\ StartReturned
    /\ fl_start.cached # {}
    /\ fl_start.cached = fl_start.flushing
    /\ Len(fl_start.log) = 3
    /\ scr_cache_size >= 1


\* ---- SpecEvict: the eviction of SCR_Start_checkpoint, step by step ----

\* highest checkpoint id of a cache SCR_Start_checkpoint is called on
MaxEvIds == 3

EvIds == 1..MaxEvIds

\* a flush file that marks the ids of marks FLUSHING on every node
ev_flush_file(marks) ==
    [n \in FlNodes |->
        [k \in EvIds |-> IF k \in marks THEN {SCR_FLUSH_KEY_LOCATION_FLUSHING}
                         ELSE {}]]

\* the ordered list scr_filemap_list_checkpoints returned
ev_ckpts == SortedSeq(ev_in.cached)

\* SCR_Start_checkpoint is called with a cache that holds no more checkpoints
\* than an earlier call left in it, at most one of them being flushed
InitEvict ==
    /\ IdleXor
    /\ IdleDist
    /\ IdleInit
    /\ IdleFilemap
    /\ IdleFlush
    /\ IdleCkpt
    /\ IdleAttempt
    /\ IdleFetch
    /\ IdleXfer
    /\ IdleHalt
    /\ IdleScatter
    /\ IdleDesc
    /\ IdleWait
    /\ IdleTail
    /\ IdleExchange
    /\ IdleWindow
    /\ IdleMove
    /\ ev_pc = "count"
    /\ ev_size \in 0..MaxCacheSize
    /\ ev_cache \in {c \in SUBSET EvIds :
                       Cardinality(c) <= (IF ev_size > 1 THEN ev_size ELSE 1)}
    /\ ev_marks \in {m \in SUBSET ev_cache : Cardinality(m) <= 1}
    /\ ev_async = SetMax(ev_marks \cup {-1})
    /\ ev_in = [cached |-> ev_cache, flushing |-> ev_marks]
    /\ ev_i = 0
    /\ ev_st = <<>>
    /\ ev_log = <<>>

\* the checkpoints of the base are listed and counted
EvCount ==
    /\ ev_pc = "count"
    /\ ev_st' = [nckpts_base |-> Cardinality(ev_cache), flushing |-> -1,
                 deleted |-> {}]
    /\ ev_i' = 1
    /\ ev_pc' = "loop"
    /\ UNCHANGED <<ev_size, ev_cache, ev_marks, ev_async, ev_in, ev_log>>

\* one iteration of the loop that makes room
EvLoopStep ==
    /\ ev_pc = "loop"
    /\ ev_i <= Len(ev_ckpts)
    /\ ev_st.nckpts_base >= ev_size
    /\ LET st == evict_loop(SubSeq(ev_ckpts, 1, ev_i), ev_i, ev_st, ev_size,
                            ev_flush_file(ev_marks))
           gone == st.deleted \ ev_st.deleted
       IN /\ ev_st' = st
          /\ ev_cache' = ev_cache \ gone
          /\ ev_log' = IF gone = {} THEN ev_log
                       ELSE Append(ev_log, <<"evict", ev_ckpts[ev_i]>>)
    /\ ev_i' = ev_i + 1
    /\ UNCHANGED <<ev_pc, ev_size, ev_marks, ev_async, ev_in>>

\* the loop ends: there is room, or the list is exhausted and the checkpoint
\* being flushed, if any, has to be waited for
EvLoopEnd ==
    /\ ev_pc = "loop"
    /\ ~(ev_i <= Len(ev_ckpts) /\ ev_st.nckpts_base >= ev_size)
    /\ ev_pc' = IF ev_st.nckpts_base >= ev_size /\ ev_st.flushing # -1
                THEN "wait" ELSE "done"
    /\ UNCHANGED <<ev_size, ev_cache, ev_marks, ev_async, ev_in, ev_i, ev_st,
                   ev_log>>

\* scr_flush_async_wait returns when the flush in progress has completed
EvWait ==
    /\ ev_pc = "wait"
    /\ ev_marks' = ev_marks \ {ev_async}
    /\ ev_log' = Append(ev_log, <<"complete", ev_async>>)
    /\ ev_pc' = "evict"
    /\ UNCHANGED <<ev_size, ev_cache, ev_async, ev_in, ev_i, ev_st>>

\* the checkpoint the loop found being flushed is deleted
EvEvict ==
    /\ ev_pc = "evict"
    /\ ev_cache' = ev_cache \ {ev_st.flushing}
    /\ ev_st' = [ev_st EXCEPT !.nckpts_base = @ - 1]
    /\ ev_log' = Append(ev_log, <<"evict", ev_st.flushing>>)
    /\ ev_pc' = "done"
    /\ UNCHANGED <<ev_size, ev_marks, ev_async, ev_in, ev_i>>

NextEvict ==
    /\ \/ EvCount
       \/ EvLoopStep
       \/ EvLoopEnd
       \/ EvWait
       \/ EvEvict
    /\ UNCHANGED <<xorVars, distVars, initVars, fmVars, flushVars, ckptVars,
                   attemptVars, fetchVars, xferVars, haltVars, scatterVars,
                   descVars, waitVars, tailVars, exVars, swVars, moveVars>>

SpecEvict == InitEvict /\ [][NextEvict]_vars

\* C13: when the checkpoints not marked FLUSHING suffice to make room,
\* SCR_Start_checkpoint evicts exactly the lowest-numbered of them, as many
\* as needed, and waits on no flush; when every cached checkpoint is marked
\* FLUSHING, the one it waits on and then evicts is the lowest-numbered.
C13_EvictsLowest ==
    LET need == NeedRoom(ev_in.cached, ev_size)
        free == ev_in.cached \ ev_in.flushing
        low == SortedSeq(ev_in.cached)[1]
    IN /\ (need >= 1 /\ Cardinality(free) >= need) =>
             /\ ev_pc \notin {"wait", "evict"}
             /\ EvictedIn(ev_log) \subseteq LowestN(free, need)
             /\ ev_pc = "done" =>
                   /\ EvictedIn(ev_log) = LowestN(free, need)
                   /\ ev_cache = ev_in.cached \ LowestN(free, need)
                   /\ Len(ev_log) = need
       /\ (need >= 1 /\ ev_in.cached # {} /\ free = {}) =>
             /\ ev_pc = "wait" => ev_async = low
             /\ IsPrefix(ev_log, << <<"complete", low>>, <<"evict", low>> >>)
             /\ ev_pc = "done" => (Len(ev_log) = 2 /\ low \notin ev_cache)

\* two checkpoints were cached, the lower one being flushed, and there was
\* room for two: the higher one was evicted and no flush waited for
C13_Witness ==
    /\ ev_pc = "done"
    /\ Cardinality(ev_in.cached) = 2
    /\ ev_in.flushing = {SortedSeq(ev_in.cached)[1]}
    /\ ev_cache = ev_in.flushing
    /\ ev_size = 2


\* ---- SpecCkpt: the public calls of one run, on every rank ----

MaxCkRanks == 2
MaxCkIds == 1
MaxCkFiles == 1

CkRanks == 0..(MaxCkRanks - 1)
CkIds == 1..MaxCkIds
CkFiles == 1..MaxCkFiles

\* the argument of SCR_Route_file: one of the files, or 0 for an empty name
CkArgs == {0} \cup CkFiles

NoCkFile == [data |-> FALSE, meta |-> "none"]
NoCkEntry == [listed |-> FALSE, files |-> {}]

\* the code every rank gets from a call that returns the same constant
AllRanks(code) == [r \in CkRanks |-> code]

\* SCR_Start_checkpoint aborts when a checkpoint is open
start_rejects(in_checkpoint) == in_checkpoint

complete_never_rejects(in_checkpoint) == FALSE

\* SCR_Complete_checkpoint aborts when no checkpoint is open
complete_rejects(in_checkpoint) == ~in_checkpoint

\* scr_bool_have_file: the file is there and its meta data marks it complete
ck_have_file(disk, r, k, f) ==
    disk[r][k][f].data /\ disk[r][k][f].meta = "complete"

\* the scan of scr_copy_files over the files the filemap lists for the rank
ck_valid(map, disk, r, k) ==
    \A f \in map[r][k].files : ck_have_file(disk, r, k, f)

copy_files_rc_local(flags, r) ==
    IF flags[r] THEN SCR_SUCCESS ELSE SCR_FAILURE

\* the code of scr_copy_files on rank r: scr_alltrue of the ranks' flags
copy_files_rc(flags, r) ==
    IF \A q \in CkRanks : flags[q] THEN SCR_SUCCESS ELSE SCR_FAILURE

\* SCR_Route_file on one rank: an empty name fails; in a checkpoint the file
\* is listed in the filemap; otherwise the file has to be readable
route_file_rc(in_checkpoint, disk, r, k, f) ==
    IF f = 0 THEN SCR_FAILURE
    ELSE IF in_checkpoint THEN SCR_SUCCESS
    ELSE IF k \in CkIds /\ disk[r][k][f].data THEN SCR_SUCCESS
    ELSE SCR_FAILURE

InitCkpt ==
    /\ IdleXor
    /\ IdleDist
    /\ IdleInit
    /\ IdleFilemap
    /\ IdleFlush
    /\ IdleEvict
    /\ IdleAttempt
    /\ IdleFetch
    /\ IdleXfer
    /\ IdleHalt
    /\ IdleScatter
    /\ IdleDesc
    /\ IdleWait
    /\ IdleTail
    /\ IdleExchange
    /\ IdleWindow
    /\ IdleMove
    /\ ck_pc = "down"
    /\ scr_in_checkpoint = FALSE
    /\ ck_checkpoint_id = 0
    /\ ck_map = [r \in CkRanks |-> [k \in CkIds |-> NoCkEntry]]
    /\ ck_disk = [r \in CkRanks |-> [k \in CkIds |-> [f \in CkFiles |-> NoCkFile]]]
    /\ ck_flush = {}
    /\ ck_call = [name |-> "none"]
    /\ ck_hist = <<>>

\* scr_abort: MPI_Abort ends the job, no rank returns from the call
CkAbort(name) ==
    /\ ck_pc' = "aborted"
    /\ ck_call' = [name |-> name, accepted |-> FALSE, rc |-> AllRanks("aborted")]
    /\ UNCHANGED <<scr_in_checkpoint, ck_checkpoint_id, ck_map, ck_disk, ck_flush,
                   ck_hist>>

\* SCR_Init of a job that starts with an empty cache: whatever the restart
\* and the fetch return, the code is set to SCR_SUCCESS
CkInit ==
    /\ ck_pc = "down"
    /\ ck_pc' = "app"
    /\ ck_call' = [name |-> "SCR_Init", accepted |-> TRUE,
                   rc |-> AllRanks(SCR_SUCCESS)]
    /\ UNCHANGED <<scr_in_checkpoint, ck_checkpoint_id, ck_map, ck_disk, ck_flush,
                   ck_hist>>

CkNeed_checkpoint ==
    /\ ck_pc = "app"
    /\ ck_call' = [name |-> "SCR_Need_checkpoint", accepted |-> TRUE,
                   rc |-> AllRanks(SCR_SUCCESS)]
    /\ UNCHANGED <<ck_pc, scr_in_checkpoint, ck_checkpoint_id, ck_map, ck_disk,
                   ck_flush, ck_hist>>

\* SCR_Start_checkpoint with a cache of size 1: the checkpoint in cache, if
\* any, is deleted to make room
CkStart_checkpoint ==
    /\ ck_pc = "app"
    /\ IF start_rejects(scr_in_checkpoint)
       THEN CkAbort("SCR_Start_checkpoint")
       ELSE /\ ck_checkpoint_id < MaxCkIds
            /\ scr_in_checkpoint' = TRUE
            /\ ck_checkpoint_id' = ck_checkpoint_id + 1
            /\ ck_map' = [r \in CkRanks |->
                            [k \in CkIds |->
                               IF k = ck_checkpoint_id + 1
                               THEN [ck_map[r][k] EXCEPT !.listed = TRUE]
                               ELSE NoCkEntry]]
            /\ ck_disk' = [r \in CkRanks |->
                             [k \in CkIds |->
                                IF k = ck_checkpoint_id + 1 THEN ck_disk[r][k]
                                ELSE [f \in CkFiles |-> NoCkFile]]]
            /\ ck_flush' = {}
            /\ ck_hist' = Append(ck_hist, "Start")
            /\ ck_call' = [name |-> "SCR_Start_checkpoint", accepted |-> TRUE,
                           rc |-> AllRanks(SCR_SUCCESS)]
            /\ UNCHANGED ck_pc

\* every rank calls SCR_Route_file with a file name of its own
CkRoute_file ==
    /\ ck_pc = "app"
    /\ \E arg \in [CkRanks -> CkArgs] :
          /\ ck_map' = [r \in CkRanks |->
                          IF scr_in_checkpoint /\ arg[r] # 0
                          THEN [ck_map[r] EXCEPT ![ck_checkpoint_id].files =
                                                    @ \cup {arg[r]}]
                          ELSE ck_map[r]]
          /\ ck_call' = [name |-> "SCR_Route_file", accepted |-> TRUE,
                         arg |-> arg,
                         rc |-> [r \in CkRanks |->
                                   route_file_rc(scr_in_checkpoint, ck_disk, r,
                                                 ck_checkpoint_id, arg[r])]]
    /\ UNCHANGED <<ck_pc, scr_in_checkpoint, ck_checkpoint_id, ck_disk, ck_flush,
                   ck_hist>>

\* the application writes a file it routed
CkWrite ==
    /\ ck_pc = "app"
    /\ scr_in_checkpoint
    /\ \E r \in CkRanks : \E f \in ck_map[r][ck_checkpoint_id].files :
          /\ ~ck_disk[r][ck_checkpoint_id][f].data
          /\ ck_disk' = [ck_disk EXCEPT ![r][ck_checkpoint_id][f].data = TRUE]
    /\ UNCHANGED <<ck_pc, scr_in_checkpoint, ck_checkpoint_id, ck_map, ck_flush,
                   ck_call, ck_hist>>

\* SCR_Complete_checkpoint: the meta data of the listed files is written with
\* the rank's valid flag, scr_copy_files checks the files and applies the
\* redundancy scheme, which may fail on some ranks; then the checkpoint is
\* marked CACHE, and the job may halt, or the checkpoint is deleted
CkComplete_checkpoint ==
    /\ ck_pc = "app"
    /\ IF complete_rejects(scr_in_checkpoint)
       THEN CkAbort("SCR_Complete_checkpoint")
       ELSE \E valid \in [CkRanks -> BOOLEAN] :
          LET k == ck_checkpoint_id
              marked == [r \in CkRanks |-> [ck_disk[r] EXCEPT ![k] =
                           [f \in CkFiles |->
                              IF f \in ck_map[r][k].files
                              THEN [ck_disk[r][k][f] EXCEPT !.meta =
                                      IF valid[r] THEN "complete" ELSE "incomplete"]
                              ELSE ck_disk[r][k][f]]]]
              flags == [r \in CkRanks |-> ck_valid(ck_map, marked, r, k)]
              checked == [r \in CkRanks |-> copy_files_rc(flags, r)]
              all_valid == \A r \in CkRanks : checked[r] = SCR_SUCCESS
          IN /\ k \in CkIds
             /\ \E copy_ok \in (IF all_valid THEN [CkRanks -> BOOLEAN]
                                 ELSE {[r \in CkRanks |-> TRUE]}) :
                LET rc == [r \in CkRanks |->
                             IF checked[r] # SCR_SUCCESS THEN SCR_FAILURE
                             ELSE copy_files_rc(copy_ok, r)]
                    good == {r \in CkRanks : rc[r] = SCR_SUCCESS}
                IN \E halt \in (IF good = {} THEN {FALSE} ELSE BOOLEAN) :
                   /\ ck_disk' = [r \in CkRanks |->
                                    IF r \in good THEN marked[r]
                                    ELSE [marked[r] EXCEPT ![k] =
                                            [f \in CkFiles |-> NoCkFile]]]
                   /\ ck_map' = [r \in CkRanks |->
                                   IF r \in good THEN ck_map[r]
                                   ELSE [ck_map[r] EXCEPT ![k] = NoCkEntry]]
                   /\ ck_flush' = IF good = CkRanks THEN ck_flush \cup {k}
                                  ELSE IF good = {} THEN ck_flush \ {k}
                                  ELSE ck_flush
                   /\ scr_in_checkpoint' = FALSE
                   /\ ck_hist' = Append(ck_hist, "Complete")
                   /\ ck_pc' = IF halt THEN "exited" ELSE "app"
                   /\ ck_call' = [name |-> "SCR_Complete_checkpoint",
                                  accepted |-> TRUE,
                                  invalid |-> {r \in CkRanks :
                                                 \/ ~valid[r]
                                                 \/ \E f \in ck_map[r][k].files :
                                                       ~ck_disk[r][k][f].data},
                                  id |-> k,
                                  rc |-> IF halt THEN AllRanks("exited") ELSE rc]
                   /\ UNCHANGED ck_checkpoint_id

CkFinalize ==
    /\ ck_pc = "app"
    /\ ck_pc' = "finalized"
    /\ ck_call' = [name |-> "SCR_Finalize", accepted |-> TRUE,
                   rc |-> AllRanks(SCR_SUCCESS)]
    /\ UNCHANGED <<scr_in_checkpoint, ck_checkpoint_id, ck_map, ck_disk, ck_flush,
                   ck_hist>>

NextCkpt ==
    /\ \/ CkInit
       \/ CkNeed_checkpoint
       \/ CkStart_checkpoint
       \/ CkRoute_file
       \/ CkWrite
       \/ CkComplete_checkpoint
       \/ CkFinalize
    /\ UNCHANGED <<xorVars, distVars, initVars, fmVars, flushVars, evictVars,
                   attemptVars, fetchVars, xferVars, haltVars, scatterVars,
                   descVars, waitVars, tailVars, exVars, swVars, moveVars>>

SpecCkpt == InitCkpt /\ [][NextCkpt]_vars

CkTypeOK ==
    /\ ck_checkpoint_id \in 0..MaxCkIds
    /\ Len(ck_hist) <= MaxCkIds + MaxCkIds


\* the checkpoint k is gone from the filemap and the cache of every rank
CkDeleted(k) ==
    \A r \in CkRanks :
       /\ ck_map[r][k] = NoCkEntry
       /\ \A f \in CkFiles : ck_disk[r][k][f] = NoCkFile

\* every rank got the same code from the last call
CkUniform == \A r, q \in CkRanks : ck_call.rc[r] = ck_call.rc[q]

\* the accepted calls alternate, SCR_Start_checkpoint first
CkAlternate ==
    /\ \A i \in 1..Len(ck_hist) :
          ck_hist[i] = IF i % 2 = 1 THEN "Start" ELSE "Complete"
    /\ scr_in_checkpoint <=> (Len(ck_hist) % 2 = 1)

\* a step in which SCR_Complete_checkpoint is called outside a checkpoint
CkCompleteOutside ==
    /\ ~scr_in_checkpoint
    /\ ck_call' # ck_call
    /\ ck_call'.name = "SCR_Complete_checkpoint"

\* C14: SCR_Complete_checkpoint called when no SCR_Start_checkpoint was
\* accepted since the last complete, or since SCR_Init, is rejected and
\* changes neither the filemap, the flush file, the cache nor the checkpoint
\* id; and the accepted calls of start and complete strictly alternate.
C14_CompleteNeedsStart ==
    /\ []CkAlternate
    /\ [][CkCompleteOutside =>
            /\ ~ck_call'.accepted
            /\ UNCHANGED <<ck_map, ck_disk, ck_flush, ck_checkpoint_id,
                           ck_hist>>]_vars

\* a checkpoint was completed and marked CACHE, and a second
\* SCR_Complete_checkpoint was rejected
C14_Witness ==
    /\ ck_call.name = "SCR_Complete_checkpoint"
    /\ ~ck_call.accepted
    /\ Len(ck_hist) = 2
    /\ ck_flush # {}

\* C15: if a rank calls SCR_Complete_checkpoint with valid false, or has a
\* routed file that is not present and usable, the call returns failure on
\* every rank, the checkpoint is removed from every rank's cache and
\* filemap, and it is not marked CACHE.
C15_InvalidRankFailsAll ==
    (/\ ck_call.name = "SCR_Complete_checkpoint"
     /\ ck_call.accepted
     /\ ck_call.invalid # {}) =>
       /\ \A r \in CkRanks : ck_call.rc[r] = SCR_FAILURE
       /\ CkDeleted(ck_call.id)
       /\ ck_call.id \notin ck_flush

\* C16 as stated: every public call, SCR_Route_file among them, returns the
\* same code on every rank.
C16_UniformCodes ==
    ck_call.name # "none" => CkUniform

\* C16: SCR_Init, SCR_Need_checkpoint, SCR_Start_checkpoint,
\* SCR_Complete_checkpoint and SCR_Finalize return the same code on every
\* rank, also when a step fails on some ranks only; SCR_Route_file returns
\* to each rank a code of its own: failure exactly if the rank passed an
\* empty name or, outside a checkpoint, a file it cannot read.
C16_UniformButRoute ==
    /\ ck_call.name \notin {"none", "SCR_Route_file"} => CkUniform
    /\ ck_call.name = "SCR_Route_file" =>
          \A r \in CkRanks :
             ck_call.rc[r] = SCR_FAILURE <=>
                \/ ck_call.arg[r] = 0
                \/ /\ ~scr_in_checkpoint
                   /\ \/ ck_checkpoint_id = 0
                      \/ ~ck_disk[r][ck_checkpoint_id][ck_call.arg[r]].data

\* the redundancy copy failed on one rank only, and the other rank's file is
\* deleted with the checkpoint
C16_Witness ==
    /\ ck_call.name = "SCR_Complete_checkpoint"
    /\ ck_call.accepted
    /\ ck_call.invalid = {}
    /\ \A r \in CkRanks : ck_call.rc[r] = SCR_FAILURE
    /\ \E r \in CkRanks : ck_map[r][ck_call.id] = NoCkEntry
    /\ ck_hist = <<"Start", "Complete">>


\* ---- SpecArx: scr_attempt_rebuild_xor over several XOR sets ----

MaxArSets == 2
MaxArSize == 3

\* the world: MaxArSets sets of ar_size members, consecutive ranks forming a set
ArRanks(size) == 0..(MaxArSets * size - 1)
ArSetOf(r, size) == r \div size
ArMyRank(r, size) == r % size
ArMembers(r, size) == {q \in ArRanks(size) : ArSetOf(q, size) = ArSetOf(r, size)}

\* MPI_Allreduce with MPI_SUM of need_rebuild over the communicator of the set
ar_total_rebuild(need, members) == Cardinality({q \in members : need[q]})

ar_set_can_rebuild_two(total) == total <= 2

\* set_can_rebuild
ar_set_can_rebuild(total) == total <= 1

\* MPI_Allreduce with MPI_MAX of tmp_rank over the communicator of the set
ar_rebuild_rank(need, members, size) ==
    SetMax({IF need[q] THEN ArMyRank(q, size) ELSE -1 : q \in members})

InitArx ==
    /\ IdleXor
    /\ IdleDist
    /\ IdleInit
    /\ IdleFilemap
    /\ IdleFlush
    /\ IdleEvict
    /\ IdleCkpt
    /\ IdleFetch
    /\ IdleXfer
    /\ IdleHalt
    /\ IdleScatter
    /\ IdleDesc
    /\ IdleWait
    /\ IdleTail
    /\ IdleExchange
    /\ IdleWindow
    /\ IdleMove
    /\ ar_pc = "count"
    /\ ar_size \in 2..MaxArSize
    /\ ar_need \in [ArRanks(ar_size) -> BOOLEAN]
    /\ ar_total = [r \in ArRanks(ar_size) |-> 0]
    /\ ar_root = [r \in ArRanks(ar_size) |-> -1]
    /\ ar_io = {}
    /\ ar_rc = [r \in ArRanks(ar_size) |-> "none"]

\* every rank finds out whether it has its files and its XOR file, and the
\* members of each set add up how many of them need a rebuild
ArCount ==
    /\ ar_pc = "count"
    /\ ar_total' = [r \in ArRanks(ar_size) |->
                      ar_total_rebuild(ar_need, ArMembers(r, ar_size))]
    /\ ar_pc' = "check"
    /\ UNCHANGED <<ar_size, ar_need, ar_root, ar_io, ar_rc>>

\* scr_alltrue(set_can_rebuild): if a set cannot rebuild every rank returns
\* SCR_FAILURE
ArCheck ==
    /\ ar_pc = "check"
    /\ IF \A r \in ArRanks(ar_size) : ar_set_can_rebuild(ar_total[r])
       THEN ar_pc' = "rebuild" /\ UNCHANGED ar_rc
       ELSE /\ ar_pc' = "done"
            /\ ar_rc' = [r \in ArRanks(ar_size) |-> SCR_FAILURE]
    /\ UNCHANGED <<ar_size, ar_need, ar_total, ar_root, ar_io>>

\* the members of a set in which someone needs a rebuild determine the root
\* and call scr_rebuild_xor, which may fail in some sets; scr_alltrue then
\* gives every rank the same code
ArRebuild ==
    /\ ar_pc = "rebuild"
    /\ LET active == {r \in ArRanks(ar_size) : ar_total[r] > 0}
       IN /\ ar_root' = [r \in ArRanks(ar_size) |->
                           IF r \in active
                           THEN ar_rebuild_rank(ar_need, ArMembers(r, ar_size),
                                                ar_size)
                           ELSE -1]
          /\ ar_io' = active
          /\ \E failed \in SUBSET {ArSetOf(r, ar_size) : r \in active} :
                ar_rc' = [r \in ArRanks(ar_size) |->
                            IF failed = {} THEN SCR_SUCCESS ELSE SCR_FAILURE]
    /\ ar_pc' = "done"
    /\ UNCHANGED <<ar_size, ar_need, ar_total>>

NextArx ==
    /\ \/ ArCount
       \/ ArCheck
       \/ ArRebuild
    /\ UNCHANGED <<xorVars, distVars, initVars, fmVars, flushVars, evictVars,
                   ckptVars, fetchVars, xferVars, haltVars, scatterVars,
                   descVars, waitVars, tailVars, exVars, swVars, moveVars>>

SpecArx == InitArx /\ [][NextArx]_vars

\* the members of the set of r that need a rebuild
ArNeedy(r) == {q \in ArMembers(r, ar_size) : ar_need[q]}

\* C17: in scr_attempt_rebuild_xor, if some XOR set has more than one member
\* that needs a rebuild, every rank of the world returns failure and no set
\* sends or writes rebuild data; otherwise, in a set with exactly one such
\* member every member computes that member's rank in the set as the root,
\* and in a set with none no rebuild is done.
C17_RebuildDecision ==
    ar_pc = "done" =>
       IF \E r \in ArRanks(ar_size) : Cardinality(ArNeedy(r)) > 1
       THEN /\ \A r \in ArRanks(ar_size) : ar_rc[r] = SCR_FAILURE
            /\ ar_io = {}
            /\ \A r \in ArRanks(ar_size) : ar_root[r] = -1
       ELSE \A r \in ArRanks(ar_size) :
               IF ArNeedy(r) = {}
               THEN r \notin ar_io /\ ar_root[r] = -1
               ELSE /\ r \in ar_io
                    /\ \E m \in ArNeedy(r) : ar_root[r] = ArMyRank(m, ar_size)
                    /\ \A q \in ArMembers(r, ar_size) : ar_root[q] = ar_root[r]

\* one set rebuilt the files of a member that is not its first, the other
\* set had nothing to rebuild
C17_Witness ==
    /\ ar_pc = "done"
    /\ \E r \in ArRanks(ar_size) : ArNeedy(r) = {}
    /\ \E r \in ArRanks(ar_size) : ar_root[r] > 0 /\ ~ar_need[r]
    /\ \A r \in ArRanks(ar_size) : ar_rc[r] = SCR_SUCCESS


(***************************************************************************)
(* The exchange loop of scr_distribute_files: partners of a round          *)
(***************************************************************************)
\* the rounds the exchange loop has run or is about to run
InExchange == dist_pc = "round" /\ dist_round <= max_rounds(dist_plan, DistProcs)

Sends(p) == send_rank(dist_plan, p, dist_round) # MPI_PROC_NULL

Receives(p) == recv_rank(dist_plan, p, dist_round) # MPI_PROC_NULL

\* C18: in every round of the exchange loop, a process that both sends and
\* receives in the round sends to and receives from the same process.
C18_OnePartner ==
    InExchange =>
        \A p \in DistProcs :
            (Sends(p) /\ Receives(p)) =>
                send_rank(dist_plan, p, dist_round) = recv_rank(dist_plan, p, dist_round)

\* C18 (amended): in every round of the exchange loop a process sends to at
\* most one process and receives from at most one process, and p sends to q
\* in a round exactly when q receives from p in that round; the process it
\* sends to and the process it receives from may differ.
C18_OnePartnerEachWay ==
    InExchange =>
        \A p, q \in DistProcs :
            (send_rank(dist_plan, p, dist_round) = q) <=>
                (recv_rank(dist_plan, q, dist_round) = p)

\* a round in which a process sends the files it holds to one process and
\* receives its own files from another
C18_Witness ==
    /\ InExchange
    /\ \E p \in DistProcs :
          /\ Sends(p) /\ Receives(p)
          /\ send_rank(dist_plan, p, dist_round) # recv_rank(dist_plan, p, dist_round)
          /\ send_rank(dist_plan, p, dist_round) # p
          /\ recv_rank(dist_plan, p, dist_round) # p

(***************************************************************************)
(* scr_distribute_files on caches that are already in place                *)
(***************************************************************************)
\* the files and sidecars on the disk of every process
DiskOf(map) ==
    [p \in DOMAIN map |->
        UNION {{<<r, f>> : f \in map[p][r].valid} : r \in DOMAIN map[p]}]

DistributeRunning == dist_pc \in {"round", "done"} /\ dist_entry # <<>>

\* at entry every process held the complete files of its own rank
HeldOwnAtEntry ==
    \A p \in DistProcs :
        /\ scr_bool_have_files(dist_entry[p], p)
        /\ dist_entry[p][p].listed = DistFilesOf(p)

\* at entry no process had an entry for another rank in its filemap
OnlyOwnAtEntry ==
    \A p, r \in DistProcs : r # p => ~dist_entry[p][r].present

\* C19: when scr_distribute_files runs where every process already holds the
\* files of its own world rank, no file or sidecar on disk is created,
\* deleted, renamed or modified, and the filemap is rewritten unchanged.
C19_BalancedNoOp ==
    (DistributeRunning /\ HeldOwnAtEntry) =>
        /\ DiskOf(dist_map) = DiskOf(dist_entry)
        /\ dist_map = dist_entry

\* C19 (amended): the same when, in addition, no process has an entry for
\* another rank in its filemap for the checkpoint.
C19_OwnOnlyNoOp ==
    (DistributeRunning /\ HeldOwnAtEntry /\ OnlyOwnAtEntry) =>
        /\ DiskOf(dist_map) = DiskOf(dist_entry)
        /\ dist_map = dist_entry

\* scr_distribute_files has returned success to the largest job, whose
\* processes each held their own files and nothing else
C19_Witness ==
    /\ dist_pc = "done"
    /\ dist_entry # <<>>
    /\ dist_world = MaxDistRanks
    /\ HeldOwnAtEntry
    /\ OnlyOwnAtEntry
    /\ \A p \in DistProcs : dist_rc[p] = SCR_SUCCESS
    /\ \E p \in DistProcs : dist_map[p][p].valid # {}
    /\ dist_map = dist_entry


(***************************************************************************)
(* scr_fetch_files: read a checkpoint back from the parallel file system   *)
(***************************************************************************)
MaxFtRanks == 3
MaxFtFiles == 2
FtPerNode == 2

FtRanks == 0..(MaxFtRanks - 1)

\* the node a rank runs on, the ranks of a node, scr_my_rank_local == 0
FtNodeOf(r) == r \div FtPerNode

FtNodes == {FtNodeOf(r) : r \in FtRanks}

FtLocal(n) == {r \in FtRanks : FtNodeOf(r) = n}

FtMaster(r) == r % FtPerNode = 0

\* the files the summary file lists for a rank (one rank in three has none)
FtSummary(r) == 1..((r + 1) % (MaxFtFiles + 1))

\* how the fetch of one file ends: copied and verified, copied in part,
\* not there after the failure, or without a size in the summary file
FtOutcomes == {"ok", "partial", "absent", "nosize"}

NoFtEntry == [present |-> FALSE, listed |-> {}, expected |-> -1]

\* the entry that holds only the checkpoint descriptor of the rank
FtDescEntry == [present |-> TRUE, listed |-> {}, expected |-> -1]

FtFullEntry(r) ==
    [present |-> TRUE, listed |-> FtSummary(r), expected |-> Cardinality(FtSummary(r))]

FtFilesOf(r, listed) == {<<r, f, k>> : f \in listed, k \in {"data", "meta"}}

\* the loop of scr_checkpoint_delete over the files the filemap lists
ft_unlink(disk, r, listed) == disk \ FtFilesOf(r, listed)

\* the loop of scr_fetch_files_list over the files of the rank
RECURSIVE fetch_list_loop(_, _, _, _, _)
fetch_list_loop(r, files, i, outcome, st) ==
    IF i > Len(files) THEN st
    ELSE LET f == files[i]
             st1 == [st EXCEPT !.listed = @ \cup {f}]
         IN IF outcome[f] = "nosize"
            THEN [st1 EXCEPT !.ok = FALSE, !.failed = @ \cup {f}]
            ELSE LET data == IF outcome[f] \in {"ok", "partial"}
                             THEN {<<r, f, "data">>} ELSE {}
                     st2 == [st1 EXCEPT
                               !.disk = @ \cup data \cup {<<r, f, "meta">>},
                               !.ok = @ /\ outcome[f] = "ok",
                               !.failed = IF outcome[f] = "ok" THEN @ ELSE @ \cup {f}]
                 IN fetch_list_loop(r, files, i + 1, outcome, st2)

scr_fetch_files_list(r, outcome) ==
    fetch_list_loop(r, SortedSeq(FtSummary(r)), 1, outcome,
                    [listed |-> {}, disk |-> {}, ok |-> TRUE, failed |-> {}])

\* a rank goes on as if the fetch had worked when its own files are there
fetch_succeeded_local(success, r) == success[r]

\* scr_alltrue(success): every rank fetched all of its files
fetch_succeeded(success, r) == \A q \in DOMAIN success : success[q]

InitFetch ==
    /\ IdleXor
    /\ IdleDist
    /\ IdleInit
    /\ IdleFilemap
    /\ IdleFlush
    /\ IdleEvict
    /\ IdleCkpt
    /\ IdleAttempt
    /\ IdleXfer
    /\ IdleHalt
    /\ IdleScatter
    /\ IdleDesc
    /\ IdleWait
    /\ IdleTail
    /\ IdleExchange
    /\ IdleWindow
    /\ IdleMove
    /\ ft_pc = [r \in FtRanks |-> "start"]
    /\ ft_old \in BOOLEAN
    /\ ft_map = [r \in FtRanks |-> IF ft_old THEN FtFullEntry(r) ELSE NoFtEntry]
    /\ ft_disk = [n \in FtNodes |->
                    IF ft_old
                    THEN UNION {FtFilesOf(r, FtSummary(r)) : r \in FtLocal(n)}
                    ELSE {}]
    /\ ft_dir = [n \in FtNodes |-> ft_old]
    /\ ft_success = [r \in FtRanks |-> TRUE]
    /\ ft_failed = [r \in FtRanks |-> {}]
    /\ ft_rc = [r \in FtRanks |-> "none"]

\* there is no fetch directory, rank 0 cannot read the summary file, or the
\* checkpoint id in it is invalid: every rank returns failure
FtBail ==
    /\ \A r \in FtRanks : ft_pc[r] = "start"
    /\ ft_pc' = [r \in FtRanks |-> "returned"]
    /\ ft_rc' = [r \in FtRanks |-> SCR_FAILURE]
    /\ UNCHANGED <<ft_old, ft_map, ft_disk, ft_dir, ft_success, ft_failed>>

\* delete what the cache holds of the checkpoint, record the descriptor in
\* the filemap and create the checkpoint directory
FtPrepare ==
    /\ \A r \in FtRanks : ft_pc[r] = "start"
    /\ ft_disk' = [n \in FtNodes |->
                     ft_disk[n] \ UNION {FtFilesOf(r, ft_map[r].listed) : r \in FtLocal(n)}]
    /\ ft_map' = [r \in FtRanks |-> FtDescEntry]
    /\ ft_dir' = [n \in FtNodes |-> TRUE]
    /\ ft_pc' = [r \in FtRanks |-> "list"]
    /\ UNCHANGED <<ft_old, ft_success, ft_failed, ft_rc>>

\* a rank fetches the files of its list; rank 0 fetches its own files before
\* it sends the other ranks theirs
FtFetchList(r) ==
    /\ ft_pc[r] = "list"
    /\ r = 0 \/ ft_pc[0] # "list"
    /\ \E outcome \in [FtSummary(r) -> FtOutcomes] :
          LET st == scr_fetch_files_list(r, outcome)
          IN /\ ft_map' = [ft_map EXCEPT ![r] =
                   [present |-> TRUE, listed |-> st.listed,
                    expected |-> Cardinality(st.listed)]]
             /\ ft_disk' = [ft_disk EXCEPT ![FtNodeOf(r)] = @ \cup st.disk]
             /\ ft_success' = [ft_success EXCEPT ![r] = st.ok]
             /\ ft_failed' = [ft_failed EXCEPT ![r] = st.failed]
    /\ ft_pc' = [ft_pc EXCEPT ![r] = "fetched"]
    /\ UNCHANGED <<ft_old, ft_dir, ft_rc>>

\* check that all processes copied their files
FtAllreduce ==
    /\ \A r \in FtRanks : ft_pc[r] = "fetched"
    /\ ft_pc' = [r \in FtRanks |->
                   IF fetch_succeeded(ft_success, r) THEN "copy" ELSE "delete"]
    /\ UNCHANGED <<ft_old, ft_map, ft_disk, ft_dir, ft_success, ft_failed, ft_rc>>

\* apply the redundancy scheme; its code is the same on every rank, and when
\* it fails the checkpoint deleted is scr_checkpoint_id, not the fetched one
FtCopy ==
    /\ \A r \in FtRanks : ft_pc[r] \notin {"start", "list", "fetched"}
    /\ \E r \in FtRanks : ft_pc[r] = "copy"
    /\ \E copy_ok \in BOOLEAN :
          ft_rc' = [r \in FtRanks |->
                      IF ft_pc[r] = "copy"
                      THEN IF copy_ok THEN SCR_SUCCESS ELSE SCR_FAILURE
                      ELSE ft_rc[r]]
    /\ ft_pc' = [r \in FtRanks |-> IF ft_pc[r] = "copy" THEN "returned" ELSE ft_pc[r]]
    /\ UNCHANGED <<ft_old, ft_map, ft_disk, ft_dir, ft_success, ft_failed>>

\* scr_checkpoint_delete up to the barrier of scr_checkpoint_dir_delete
FtUnlink(r) ==
    /\ ft_pc[r] = "delete"
    /\ ft_disk' = [ft_disk EXCEPT ![FtNodeOf(r)] = ft_unlink(@, r, ft_map[r].listed)]
    /\ ft_pc' = [ft_pc EXCEPT ![r] = "barrier"]
    /\ UNCHANGED <<ft_old, ft_map, ft_dir, ft_success, ft_failed, ft_rc>>

\* past the barrier: the master of the node removes the directory (rmdir
\* needs it empty), the checkpoint leaves the filemap, the call fails
FtLeave(r) ==
    /\ ft_pc[r] = "barrier"
    /\ \A q \in FtLocal(FtNodeOf(r)) : ft_pc[q] \in {"barrier", "returned"}
    /\ ft_dir' = IF FtMaster(r) /\ ft_disk[FtNodeOf(r)] = {}
                 THEN [ft_dir EXCEPT ![FtNodeOf(r)] = FALSE]
                 ELSE ft_dir
    /\ ft_map' = [ft_map EXCEPT ![r] = NoFtEntry]
    /\ ft_rc' = [ft_rc EXCEPT ![r] = SCR_FAILURE]
    /\ ft_pc' = [ft_pc EXCEPT ![r] = "returned"]
    /\ UNCHANGED <<ft_old, ft_disk, ft_success, ft_failed>>

NextFetch ==
    /\ \/ FtBail
       \/ FtPrepare
       \/ \E r \in FtRanks : FtFetchList(r)
       \/ FtAllreduce
       \/ FtCopy
       \/ \E r \in FtRanks : FtUnlink(r)
       \/ \E r \in FtRanks : FtLeave(r)
    /\ UNCHANGED <<xorVars, distVars, initVars, fmVars, flushVars, evictVars,
                   ckptVars, attemptVars, xferVars, haltVars, scatterVars,
                   descVars, waitVars, tailVars, exVars, swVars, moveVars>>

SpecFetch == InitFetch /\ [][NextFetch]_vars

FtReturned == \A r \in FtRanks : ft_pc[r] = "returned"

FtSomeFailed == \E r \in FtRanks : ft_failed[r] # {}

\* C20: if any rank fails to fetch one of its files, then once
\* scr_fetch_files has returned every rank has no files, no checkpoint
\* directory and no filemap entry for the checkpoint, and the call has
\* returned failure on every rank.
C20_FetchFailureCleans ==
    (FtReturned /\ FtSomeFailed) =>
        /\ \A r \in FtRanks : ft_rc[r] = SCR_FAILURE /\ ft_map[r] = NoFtEntry
        /\ \A n \in FtNodes : ft_disk[n] = {} /\ ~ft_dir[n]

\* one rank failed one of its files after the others had fetched theirs,
\* and the fetch has returned
C20_Witness ==
    /\ FtReturned
    /\ Cardinality({r \in FtRanks : ft_failed[r] # {}}) = 1
    /\ \E r \in FtRanks : Cardinality(ft_failed[r]) = 1 /\ FtSummary(r) # ft_failed[r]
    /\ \E r \in FtRanks : ft_success[r] /\ FtSummary(r) # {}
    /\ \A r \in FtRanks : ft_rc[r] = SCR_FAILURE /\ ft_map[r] = NoFtEntry
    /\ \A n \in FtNodes : ft_disk[n] = {} /\ ~ft_dir[n]


(***************************************************************************)
(* The transfer file: the asynchronous flush seen by the library and by    *)
(* the mover process of every node                                         *)
(***************************************************************************)
MaxXfNodes == 2
MaxXfFiles == 1

XfNodes == 1..MaxXfNodes

XfFiles == 1..MaxXfFiles

\* SIZE of a file in the transfer file, in blocks
XfSize(f) == f

SCR_TRANSFER_KEY_COMMAND_RUN == "RUN"
SCR_TRANSFER_KEY_COMMAND_STOP == "STOP"
SCR_TRANSFER_KEY_STATE_STOP == "STOP"

\* a transfer file that does not exist or is empty; written[f] is the
\* WRITTEN field of the entry of f under FILES, -1 when f has no entry
NoTransfer ==
    [command |-> "none", state |-> "none", done |-> FALSE, has_files |-> FALSE,
     written |-> [f \in XfFiles |-> -1]]

XfListed(file) == {f \in XfFiles : file.written[f] # -1}

NoRet == [name |-> "none", rc |-> "none", have |-> TRUE]

\* scr_flush_async_start under the lock: merge the files of the node, set
\* the RUN command, unset the DONE flag
async_start_write(file, hash) ==
    [file EXCEPT !.has_files = @ \/ hash # {},
                 !.written = [f \in XfFiles |-> IF f \in hash THEN 0 ELSE @[f]],
                 !.command = SCR_TRANSFER_KEY_COMMAND_RUN,
                 !.done = FALSE]

\* scr_flush_async_command_set under the lock
scr_flush_async_command_set(file, command) == [file EXCEPT !.command = command]

\* scr_flush_async_file_clear_all under the lock
scr_flush_async_file_clear_all(file) ==
    [file EXCEPT !.has_files = FALSE, !.written = [f \in XfFiles |-> -1]]

\* scr_flush_async_file_dequeue and the STOP command of
\* scr_flush_async_complete; keeps tells whether the FILES key stays when
\* its last entry goes
async_complete_write(file, hash, keeps) ==
    LET written == [f \in XfFiles |-> IF f \in hash THEN -1 ELSE file.written[f]]
    IN [file EXCEPT !.written = written,
                    !.has_files = @ /\ (keeps \/ \E f \in XfFiles : written[f] # -1),
                    !.command = SCR_TRANSFER_KEY_COMMAND_STOP]

\* a test that takes a transfer file without FILES for finished
file_test_vacuous(file) ==
    \A f \in XfListed(file) : file.written[f] >= XfSize(f)

\* scr_flush_async_file_test: SCR_SUCCESS as TRUE
scr_flush_async_file_test(file) ==
    IF ~file.has_files THEN FALSE
    ELSE \A f \in XfListed(file) : ~(file.written[f] < XfSize(f))

\* one pass of scr_flush_async_state_wait that does not look at the state
state_wait_any(valid) == TRUE

\* one pass of scr_flush_async_state_wait: scr_alltrue(valid)
state_wait_valid(valid) == \A n \in DOMAIN valid : valid[n]

XfAccess(file, locked) == [file |-> file, locked |-> locked]

InitXfer ==
    /\ IdleXor
    /\ IdleDist
    /\ IdleInit
    /\ IdleFilemap
    /\ IdleFlush
    /\ IdleEvict
    /\ IdleCkpt
    /\ IdleAttempt
    /\ IdleFetch
    /\ IdleHalt
    /\ IdleScatter
    /\ IdleDesc
    /\ IdleWait
    /\ IdleTail
    /\ IdleExchange
    /\ IdleWindow
    /\ IdleMove
    /\ xf_flush \in BOOLEAN
    /\ xf_call = "init"
    /\ xf_at = [n \in XfNodes |-> "idle"]
    /\ \E left \in {NoTransfer,
                    [NoTransfer EXCEPT !.command = "RUN", !.state = "RUN",
                                       !.has_files = TRUE,
                                       !.written = [f \in XfFiles |-> 0]]} :
          xf_file = [n \in XfNodes |-> left]
    /\ xf_hash = [n \in XfNodes |-> {}]
    /\ xf_in_progress = [n \in XfNodes |-> FALSE]
    /\ xf_flushing = [n \in XfNodes |-> FALSE]
    /\ xf_seen = [n \in XfNodes |-> TRUE]
    /\ xf_ret = NoRet
    /\ xf_access = {}

\* SCR_Init: the master of every node deletes the transfer file; the stop
\* of an ongoing flush follows
XfUnlink ==
    /\ xf_call = "init"
    /\ xf_file' = [n \in XfNodes |-> NoTransfer]
    /\ xf_access' = xf_access \cup {XfAccess("transfer", FALSE)}
    /\ xf_call' = "boot"
    /\ UNCHANGED <<xf_flush, xf_at, xf_hash, xf_in_progress, xf_flushing, xf_seen, xf_ret>>

\* scr_flush_async_start up to the mark in the flush file
XfStartBegin ==
    /\ xf_call = "none"
    /\ \A n \in XfNodes : ~xf_in_progress[n]
    /\ IF ~xf_flush
       THEN /\ xf_ret' = [name |-> "start", rc |-> SCR_FAILURE, have |-> TRUE]
            /\ UNCHANGED <<xf_call, xf_at, xf_hash, xf_in_progress>>
       ELSE /\ xf_call' = "start"
            /\ xf_in_progress' = [n \in XfNodes |-> TRUE]
            /\ xf_hash' = [n \in XfNodes |-> {}]
            /\ xf_at' = [n \in XfNodes |-> "mark"]
            /\ xf_ret' = NoRet
    /\ UNCHANGED <<xf_flush, xf_file, xf_flushing, xf_seen, xf_access>>

\* scr_flush_location_set / scr_flush_location_unset: the master reads the
\* flush file and writes it back, without a lock, with the location FLUSHING
\* set (at the start of a flush) or unset (at its completion)
XfMark(n) ==
    /\ xf_at[n] \in {"mark", "unmark"}
    /\ xf_flushing' = [xf_flushing EXCEPT ![n] = (xf_at[n] = "mark")]
    /\ xf_access' = xf_access \cup {XfAccess("flush", FALSE)}
    /\ xf_at' = [xf_at EXCEPT ![n] = IF @ = "mark" THEN "checked" ELSE "dequeue"]
    /\ UNCHANGED <<xf_flush, xf_call, xf_file, xf_hash, xf_in_progress, xf_seen, xf_ret>>

\* scr_alltrue(have_files) and the creation of the directory: on failure the
\* call returns with the flush marked as in progress
XfStartCheck ==
    /\ xf_call = "start"
    /\ \A n \in XfNodes : xf_at[n] = "checked"
    /\ \E ok \in BOOLEAN :
          IF ok
          THEN /\ \E h \in [XfNodes -> {{}, XfFiles}] : xf_hash' = h
               /\ xf_at' = [n \in XfNodes |-> "enqueue"]
               /\ UNCHANGED <<xf_call, xf_ret>>
          ELSE /\ xf_call' = "none"
               /\ xf_ret' = [name |-> "start", rc |-> SCR_FAILURE, have |-> FALSE]
               /\ xf_at' = [n \in XfNodes |-> "idle"]
               /\ UNCHANGED xf_hash
    /\ UNCHANGED <<xf_flush, xf_file, xf_in_progress, xf_flushing, xf_seen, xf_access>>

\* the master writes the transfer file of its node
XfStartWrite(n) ==
    /\ xf_at[n] = "enqueue"
    /\ xf_file' = [xf_file EXCEPT ![n] = async_start_write(@, xf_hash[n])]
    /\ xf_access' = xf_access \cup {XfAccess("transfer", TRUE)}
    /\ xf_at' = [xf_at EXCEPT ![n] = "done"]
    /\ UNCHANGED <<xf_flush, xf_call, xf_hash, xf_in_progress, xf_flushing, xf_seen, xf_ret>>

\* the barrier that ends scr_flush_async_start
XfStartEnd ==
    /\ xf_call = "start"
    /\ \A n \in XfNodes : xf_at[n] = "done"
    /\ xf_call' = "none"
    /\ xf_at' = [n \in XfNodes |-> "idle"]
    /\ xf_ret' = [name |-> "start", rc |-> SCR_SUCCESS, have |-> TRUE]
    /\ UNCHANGED <<xf_flush, xf_file, xf_hash, xf_in_progress, xf_flushing, xf_seen,
                   xf_access>>

\* scr_flush_async_test up to scr_alltrue(have_files)
XfTestBegin ==
    /\ xf_call = "none"
    /\ \E n \in XfNodes : xf_in_progress[n]
    /\ \E have \in BOOLEAN :
          IF xf_flush /\ have
          THEN /\ xf_call' = "test"
               /\ xf_at' = [n \in XfNodes |-> "read"]
               /\ xf_ret' = NoRet
          ELSE /\ xf_ret' = [name |-> "test", rc |-> SCR_FAILURE, have |-> have]
               /\ UNCHANGED <<xf_call, xf_at>>
    /\ xf_seen' = [n \in XfNodes |-> TRUE]
    /\ UNCHANGED <<xf_flush, xf_file, xf_hash, xf_in_progress, xf_flushing, xf_access>>

\* the master reads the transfer file with the lock
XfTestRead(n) ==
    /\ xf_call = "test"
    /\ xf_at[n] = "read"
    /\ xf_seen' = [xf_seen EXCEPT ![n] = scr_flush_async_file_test(xf_file[n])]
    /\ xf_access' = xf_access \cup {XfAccess("transfer", TRUE)}
    /\ xf_at' = [xf_at EXCEPT ![n] = "done"]
    /\ UNCHANGED <<xf_flush, xf_call, xf_file, xf_hash, xf_in_progress, xf_flushing, xf_ret>>

\* scr_alltrue(transfer_complete)
XfTestEnd ==
    /\ xf_call = "test"
    /\ \A n \in XfNodes : xf_at[n] = "done"
    /\ xf_call' = "none"
    /\ xf_at' = [n \in XfNodes |-> "idle"]
    /\ xf_ret' = [name |-> "test",
                  rc |-> IF \A n \in XfNodes : xf_seen[n]
                         THEN SCR_SUCCESS ELSE SCR_FAILURE,
                  have |-> TRUE]
    /\ UNCHANGED <<xf_flush, xf_file, xf_hash, xf_in_progress, xf_flushing, xf_seen,
                   xf_access>>

\* scr_flush_async_stop, called by SCR_Init and, with a flush in progress,
\* by SCR_Finalize and at a halt: with flushing disabled it returns at once
XfStopBegin ==
    /\ \/ xf_call = "boot"
       \/ xf_call = "none" /\ \E n \in XfNodes : xf_in_progress[n]
    /\ IF ~xf_flush
       THEN /\ xf_ret' = [name |-> "stop", rc |-> SCR_FAILURE, have |-> TRUE]
            /\ xf_call' = "none"
            /\ UNCHANGED xf_at
       ELSE /\ xf_call' = "stop"
            /\ xf_at' = [n \in XfNodes |-> "command"]
            /\ xf_ret' = NoRet
    /\ UNCHANGED <<xf_flush, xf_file, xf_hash, xf_in_progress, xf_flushing, xf_seen,
                   xf_access>>

\* the master writes the STOP command
XfStopCommand(n) ==
    /\ xf_call = "stop"
    /\ xf_at[n] = "command"
    /\ xf_file' = [xf_file EXCEPT ![n] =
                     scr_flush_async_command_set(@, SCR_TRANSFER_KEY_COMMAND_STOP)]
    /\ xf_access' = xf_access \cup {XfAccess("transfer", TRUE)}
    /\ xf_at' = [xf_at EXCEPT ![n] = "wait"]
    /\ UNCHANGED <<xf_flush, xf_call, xf_hash, xf_in_progress, xf_flushing, xf_seen, xf_ret>>

\* scr_flush_async_state_wait: the master reads the state
XfStopRead(n) ==
    /\ xf_call = "stop"
    /\ xf_at[n] = "wait"
    /\ xf_seen' = [xf_seen EXCEPT ![n] = (xf_file[n].state = SCR_TRANSFER_KEY_STATE_STOP)]
    /\ xf_access' = xf_access \cup {XfAccess("transfer", TRUE)}
    /\ xf_at' = [xf_at EXCEPT ![n] = "voted"]
    /\ UNCHANGED <<xf_flush, xf_call, xf_file, xf_hash, xf_in_progress, xf_flushing, xf_ret>>

\* scr_flush_async_state_wait: everyone at the state, or sleep and retry
XfStopVote ==
    /\ xf_call = "stop"
    /\ \A n \in XfNodes : xf_at[n] = "voted"
    /\ xf_at' = [n \in XfNodes |->
                   IF state_wait_valid(xf_seen)
                   THEN "clear" ELSE "wait"]
    /\ xf_seen' = [n \in XfNodes |-> TRUE]
    /\ UNCHANGED <<xf_flush, xf_call, xf_file, xf_hash, xf_in_progress, xf_flushing,
                   xf_ret, xf_access>>

\* the master clears the files list; the ranks clear their flag
XfStopClear(n) ==
    /\ xf_call = "stop"
    /\ xf_at[n] = "clear"
    /\ xf_file' = [xf_file EXCEPT ![n] = scr_flush_async_file_clear_all(@)]
    /\ xf_access' = xf_access \cup {XfAccess("transfer", TRUE)}
    /\ xf_in_progress' = [xf_in_progress EXCEPT ![n] = FALSE]
    /\ xf_at' = [xf_at EXCEPT ![n] = "done"]
    /\ UNCHANGED <<xf_flush, xf_call, xf_hash, xf_flushing, xf_seen, xf_ret>>

\* the barrier that ends scr_flush_async_stop
XfStopEnd ==
    /\ xf_call = "stop"
    /\ \A n \in XfNodes : xf_at[n] = "done"
    /\ xf_call' = "none"
    /\ xf_at' = [n \in XfNodes |-> "idle"]
    /\ xf_ret' = [name |-> "stop", rc |-> SCR_SUCCESS, have |-> TRUE]
    /\ UNCHANGED <<xf_flush, xf_file, xf_hash, xf_in_progress, xf_flushing, xf_seen,
                   xf_access>>

\* scr_flush_async_complete, called once the test has succeeded: the flag
\* is cleared, then the mark in the flush file and the transfer file follow
XfCompleteBegin ==
    /\ xf_call = "none"
    /\ xf_ret.name = "test" /\ xf_ret.rc = SCR_SUCCESS
    /\ xf_call' = "complete"
    /\ xf_in_progress' = [n \in XfNodes |-> FALSE]
    /\ xf_at' = [n \in XfNodes |-> "unmark"]
    /\ xf_ret' = NoRet
    /\ UNCHANGED <<xf_flush, xf_file, xf_hash, xf_flushing, xf_seen, xf_access>>

\* the master takes the files of the flush off the transfer file
XfCompleteWrite(n) ==
    /\ xf_call = "complete"
    /\ xf_at[n] = "dequeue"
    /\ \E keeps \in BOOLEAN :
          xf_file' = [xf_file EXCEPT ![n] = async_complete_write(@, xf_hash[n], keeps)]
    /\ xf_access' = xf_access \cup {XfAccess("transfer", TRUE)}
    /\ xf_at' = [xf_at EXCEPT ![n] = "done"]
    /\ UNCHANGED <<xf_flush, xf_call, xf_hash, xf_in_progress, xf_flushing, xf_seen, xf_ret>>

XfCompleteEnd ==
    /\ xf_call = "complete"
    /\ \A n \in XfNodes : xf_at[n] = "done"
    /\ xf_call' = "none"
    /\ xf_at' = [n \in XfNodes |-> "idle"]
    /\ xf_hash' = [n \in XfNodes |-> {}]
    /\ xf_ret' = [name |-> "complete", rc |-> SCR_SUCCESS, have |-> TRUE]
    /\ UNCHANGED <<xf_flush, xf_file, xf_in_progress, xf_flushing, xf_seen, xf_access>>

\* the mover of a node follows the command in the transfer file
XfMoverState(n) ==
    /\ xf_call \notin {"init"}
    /\ xf_file[n].command \in {"RUN", "STOP"}
    /\ xf_file[n].state # xf_file[n].command
    /\ xf_file' = [xf_file EXCEPT ![n].state = xf_file[n].command]
    /\ UNCHANGED <<xf_flush, xf_call, xf_at, xf_hash, xf_in_progress, xf_flushing, xf_seen,
                   xf_ret, xf_access>>

\* the mover copies a block of a file and records it in WRITTEN; with the
\* last block of the list it sets the DONE flag
XfMoverWrite(n) ==
    /\ xf_call \notin {"init"}
    /\ xf_file[n].state = "RUN"
    /\ \E f \in XfListed(xf_file[n]) :
          /\ xf_file[n].written[f] < XfSize(f)
          /\ LET written == [xf_file[n].written EXCEPT ![f] = @ + 1]
             IN xf_file' = [xf_file EXCEPT
                   ![n].written = written,
                   ![n].done = \A g \in XfListed(xf_file[n]) : written[g] >= XfSize(g)]
    /\ UNCHANGED <<xf_flush, xf_call, xf_at, xf_hash, xf_in_progress, xf_flushing, xf_seen,
                   xf_ret, xf_access>>

NextXfer ==
    /\ \/ XfUnlink
       \/ XfStartBegin
       \/ \E n \in XfNodes : XfMark(n)
       \/ XfStartCheck
       \/ \E n \in XfNodes : XfStartWrite(n)
       \/ XfStartEnd
       \/ XfTestBegin
       \/ \E n \in XfNodes : XfTestRead(n)
       \/ XfTestEnd
       \/ XfStopBegin
       \/ \E n \in XfNodes : XfStopCommand(n)
       \/ \E n \in XfNodes : XfStopRead(n)
       \/ XfStopVote
       \/ \E n \in XfNodes : XfStopClear(n)
       \/ XfStopEnd
       \/ XfCompleteBegin
       \/ \E n \in XfNodes : XfCompleteWrite(n)
       \/ XfCompleteEnd
       \/ \E n \in XfNodes : XfMoverState(n)
       \/ \E n \in XfNodes : XfMoverWrite(n)
    /\ UNCHANGED <<xorVars, distVars, initVars, fmVars, flushVars, evictVars,
                   ckptVars, attemptVars, fetchVars, haltVars, scatterVars,
                   descVars, waitVars, tailVars, exVars, swVars, moveVars>>

SpecXfer == InitXfer /\ [][NextXfer]_vars

XfStopReturned == xf_call = "none" /\ xf_ret.name = "stop"

XfStopped ==
    /\ \A n \in XfNodes :
          /\ xf_file[n].state = SCR_TRANSFER_KEY_STATE_STOP
          /\ xf_file[n].command = SCR_TRANSFER_KEY_COMMAND_STOP
          /\ ~xf_file[n].has_files
          /\ XfListed(xf_file[n]) = {}
          /\ ~xf_in_progress[n]

\* C21: when scr_flush_async_stop has returned, the mover of every node has
\* reported STATE=STOP, every transfer file has COMMAND=STOP and an empty
\* FILES list, and the in-progress flag is clear on every rank.
C21_StopStops == XfStopReturned => XfStopped

\* C21 (amended): the same when flushing is enabled; with flushing disabled
\* scr_flush_async_stop returns failure without waiting for the movers.
C21_StopStopsIfEnabled ==
    /\ (XfStopReturned /\ xf_flush) => (xf_ret.rc = SCR_SUCCESS /\ XfStopped)
    /\ (XfStopReturned /\ ~xf_flush) => xf_ret.rc = SCR_FAILURE

\* scr_flush_async_stop has returned from stopping a flush whose files the
\* mover was writing
C21_Witness ==
    /\ XfStopReturned
    /\ xf_flush
    /\ xf_ret.rc = SCR_SUCCESS
    /\ XfStopped
    /\ \E n \in XfNodes : xf_hash[n] # {}
    /\ \E n \in XfNodes : xf_file[n].done


\* every entry under FILES has WRITTEN >= SIZE; true of a file without entries
XfEntriesWritten(file) == \A f \in XfListed(file) : file.written[f] >= XfSize(f)

\* the step in which the master of node n reads and tests its transfer file
XfTestReads(n) == xf_call = "test" /\ xf_at[n] = "read" /\ xf_at'[n] = "done"

\* the step in which scr_flush_async_test returns
XfTestReturns == xf_ret' # xf_ret /\ xf_ret'.name = "test"

\* C22 as stated: scr_flush_async_test reports the flush complete if and
\* only if on every node every file entry of the transfer file has
\* WRITTEN >= SIZE, a node without file entries counting as complete
C22_TestIffWritten ==
    [][/\ \A n \in XfNodes :
             XfTestReads(n) => (xf_seen'[n] <=> XfEntriesWritten(xf_file[n]))
       /\ XfTestReturns =>
             (xf_ret'.rc = SCR_SUCCESS <=>
                 IF xf_call = "test" THEN \A n \in XfNodes : xf_seen[n]
                 ELSE \A n \in XfNodes : XfEntriesWritten(xf_file[n]))]_vars

\* C22: scr_flush_async_test reports the flush complete if and only if
\* flushing is enabled, no rank misses a cache file, and the master of every
\* node found a FILES list in its transfer file with WRITTEN >= SIZE in
\* every entry; a transfer file without FILES counts as not complete
C22_TestIffListedWritten ==
    [][/\ \A n \in XfNodes :
             XfTestReads(n) =>
                 (xf_seen'[n] <=> (xf_file[n].has_files /\ XfEntriesWritten(xf_file[n])))
       /\ XfTestReturns =>
             (xf_ret'.rc = SCR_SUCCESS <=>
                 (xf_flush /\ xf_ret'.have /\ xf_call = "test"
                  /\ \A n \in XfNodes : xf_seen[n]))]_vars

C22_Witness ==
    /\ xf_call = "none"
    /\ xf_ret = [name |-> "test", rc |-> SCR_FAILURE, have |-> TRUE]
    /\ xf_flush
    /\ \A n \in XfNodes : XfEntriesWritten(xf_file[n])
    /\ \E n \in XfNodes : ~xf_file[n].has_files
    /\ \E n \in XfNodes : xf_file[n].has_files /\ XfListed(xf_file[n]) # {}


\* C26 as stated: every access the library makes to the flush file or to
\* the transfer file of a node is made while holding the lock of that file
C26_AllAccessLocked == \A a \in xf_access : a.locked


(***************************************************************************)
(* The halt branch of scr_bool_check_halt_and_decrement and SCR_Finalize:  *)
(* what is flushed before the process leaves                               *)
(***************************************************************************)
\* what stops scr_flush_files, or "copy" for a rank that fails to copy a
\* file, or "ok"
HlOutcomes == {"prefix", "files", "dir", "summary", "copy", "ok"}

\* a scr_flush_files that never fails
flush_files_always(outcome) == SCR_SUCCESS

\* flushed at the end of scr_flush_files once the checkpoint needs a flush
flush_files_rc(outcome) ==
    IF outcome \in {"prefix", "files", "dir", "summary"} THEN SCR_FAILURE
    ELSE flushed_after_copy(IF outcome = "copy" THEN SCR_FAILURE ELSE SCR_SUCCESS)

\* the state of a running job between two calls of the library
InitHalt ==
    /\ IdleXor
    /\ IdleDist
    /\ IdleInit
    /\ IdleFilemap
    /\ IdleFlush
    /\ IdleEvict
    /\ IdleCkpt
    /\ IdleAttempt
    /\ IdleFetch
    /\ IdleXfer
    /\ IdleScatter
    /\ IdleDesc
    /\ IdleWait
    /\ IdleTail
    /\ IdleExchange
    /\ IdleWindow
    /\ IdleMove
    /\ hl_pc = "app"
    /\ hl_call = "none"
    /\ hl_flush \in {0, scr_flush}
    /\ hl_cur \in {0} \cup FlIds
    /\ \E a \in {-1} \cup (IF hl_flush > 0 THEN 1..hl_cur ELSE {}),
          rest \in [FlIds -> {{}, {SCR_FLUSH_KEY_LOCATION_CACHE},
                              {SCR_FLUSH_KEY_LOCATION_CACHE,
                               SCR_FLUSH_KEY_LOCATION_PFS}}] :
          /\ hl_async_id = a
          /\ hl_in_progress = (a # -1)
          /\ hl_ff = [n \in FlNodes |-> [k \in FlIds |->
                        IF k = a THEN {SCR_FLUSH_KEY_LOCATION_CACHE,
                                       SCR_FLUSH_KEY_LOCATION_FLUSHING}
                        ELSE IF k > hl_cur THEN {}
                        ELSE rest[k]]]
          /\ hl_transfer \in (IF a # -1 THEN {"none", "queued", "written"}
                              ELSE {"none"})
    /\ hl_entry = <<>>
    /\ hl_sync = <<>>

\* the branch on a flush in progress that the halt branch and SCR_Finalize share
HlDetect(call) ==
    /\ hl_pc = "app"
    /\ hl_call' = call
    /\ hl_entry' = [need |-> scr_bool_need_flush(hl_ff, hl_cur),
                    other |-> hl_in_progress /\ hl_async_id # hl_cur,
                    same |-> hl_in_progress /\ hl_async_id = hl_cur]
    /\ hl_pc' = IF ~hl_in_progress THEN "need"
                ELSE IF hl_async_id = hl_cur THEN "stop" ELSE "wait"
    /\ UNCHANGED <<hl_flush, hl_cur, hl_in_progress, hl_async_id, hl_ff, hl_transfer,
                   hl_sync>>

\* scr_bool_check_halt_and_decrement(SCR_TEST_AND_HALT) finds that the job
\* has to halt
HlHalt == HlDetect("halt")

\* SCR_Finalize
HlFinalize == HlDetect("finalize")

\* scr_flush_async_stop: the files are taken off the transfer files and the
\* flush is no longer in progress; the flush file is left as it is
HlStop ==
    /\ hl_pc = "stop"
    /\ IF hl_flush <= 0
       THEN UNCHANGED <<hl_in_progress, hl_transfer>>
       ELSE /\ hl_in_progress' = FALSE
            /\ hl_transfer' = "none"
    /\ hl_pc' = "need"
    /\ UNCHANGED <<hl_call, hl_flush, hl_cur, hl_async_id, hl_ff, hl_entry, hl_sync>>

\* scr_flush_async_wait: the test succeeds and scr_flush_async_complete runs
HlWaitComplete ==
    /\ hl_pc = "wait"
    /\ ~scr_flush_async_wait_done(hl_in_progress, hl_ff, hl_async_id)
    /\ hl_flush > 0
    /\ scr_flush_async_test(hl_transfer)
    /\ \E flushed \in {SCR_SUCCESS, SCR_FAILURE} :
          LET marked == IF flushed = SCR_SUCCESS
                        THEN scr_flush_location_set(hl_ff, hl_async_id,
                                                    SCR_FLUSH_KEY_LOCATION_PFS)
                        ELSE hl_ff
          IN hl_ff' = scr_flush_location_unset(marked, hl_async_id,
                                               SCR_FLUSH_KEY_LOCATION_FLUSHING)
    /\ hl_in_progress' = FALSE
    /\ hl_transfer' = "none"
    /\ UNCHANGED <<hl_pc, hl_call, hl_flush, hl_cur, hl_async_id, hl_entry, hl_sync>>

\* scr_flush_async_wait leaves its loop
HlWaitReturn ==
    /\ hl_pc = "wait"
    /\ scr_flush_async_wait_done(hl_in_progress, hl_ff, hl_async_id)
    /\ hl_pc' = "need"
    /\ UNCHANGED <<hl_call, hl_flush, hl_cur, hl_in_progress, hl_async_id, hl_ff,
                   hl_transfer, hl_entry, hl_sync>>

\* the halt branch calls scr_flush_files; SCR_Finalize calls it if
\* scr_bool_need_flush
HlNeed ==
    /\ hl_pc = "need"
    /\ hl_pc' = IF hl_call = "halt" \/ scr_bool_need_flush(hl_ff, hl_cur)
                THEN "flush" ELSE "leave"
    /\ UNCHANGED <<hl_call, hl_flush, hl_cur, hl_in_progress, hl_async_id, hl_ff,
                   hl_transfer, hl_entry, hl_sync>>

\* scr_flush_files(scr_map, scr_checkpoint_id); no flush is in progress when
\* it is called here
HlFlushFiles ==
    /\ hl_pc = "flush"
    /\ IF hl_flush <= 0
       THEN /\ hl_sync' = [rc |-> SCR_FAILURE, outcome |-> "disabled"]
            /\ UNCHANGED hl_ff
       ELSE IF ~scr_bool_need_flush(hl_ff, hl_cur)
       THEN /\ hl_sync' = [rc |-> SCR_SUCCESS, outcome |-> "none"]
            /\ UNCHANGED hl_ff
       ELSE \E outcome \in HlOutcomes :
               /\ hl_sync' = [rc |-> flush_files_rc(outcome), outcome |-> outcome]
               /\ hl_ff' = IF flush_files_rc(outcome) = SCR_SUCCESS
                           THEN scr_flush_location_set(hl_ff, hl_cur,
                                                       SCR_FLUSH_KEY_LOCATION_PFS)
                           ELSE hl_ff
    /\ hl_pc' = "leave"
    /\ UNCHANGED <<hl_call, hl_flush, hl_cur, hl_in_progress, hl_async_id,
                   hl_transfer, hl_entry>>

\* exit(0) after the barrier of the halt branch, or the return of SCR_Finalize
HlLeave ==
    /\ hl_pc = "leave"
    /\ hl_pc' = IF hl_call = "halt" THEN "exited" ELSE "returned"
    /\ UNCHANGED <<hl_call, hl_flush, hl_cur, hl_in_progress, hl_async_id, hl_ff,
                   hl_transfer, hl_entry, hl_sync>>

\* the mover finishes writing the files listed in the transfer files
HlMover ==
    /\ hl_pc \notin {"exited", "returned"}
    /\ hl_transfer = "queued"
    /\ hl_transfer' = "written"
    /\ UNCHANGED <<hl_pc, hl_call, hl_flush, hl_cur, hl_in_progress, hl_async_id,
                   hl_ff, hl_entry, hl_sync>>

NextHalt ==
    /\ \/ HlHalt
       \/ HlFinalize
       \/ HlStop
       \/ HlWaitComplete
       \/ HlWaitReturn
       \/ HlNeed
       \/ HlFlushFiles
       \/ HlLeave
       \/ HlMover
    /\ UNCHANGED <<xorVars, distVars, initVars, fmVars, flushVars, evictVars,
                   ckptVars, attemptVars, fetchVars, xferVars, scatterVars,
                   descVars, waitVars, tailVars, exVars, swVars, moveVars>>

SpecHalt == InitHalt /\ [][NextHalt]_vars

HlOnPfs(k) ==
    \A n \in FlNodes : SCR_FLUSH_KEY_LOCATION_PFS \in hl_ff[n][k]

C24_FinalizeLeavesNoFlush ==
    (hl_pc = "returned") =>
        /\ ~hl_in_progress
        /\ \A k \in FlIds : ~scr_bool_is_flushing(hl_ff, k)
        /\ ~scr_bool_need_flush(hl_ff, hl_cur)


(***************************************************************************)
(* scr_scatter_filemaps on one node, and a job that dies during it         *)
(***************************************************************************)
MaxScEntries == 2
MaxScLocal == 2

\* a filemap entry stands for the files of one rank of one checkpoint; the
\* entry e belongs to world rank e, and local rank i of a run has world
\* rank i + 1
ScEntries == 1..MaxScEntries

ScFiles == 0..(MaxScLocal - 1)

ScLocal == 0..(sc_local - 1)

\* what a scatter finds: the entries of the filemap files the master map lists
ScDiscover(disk, listed) == UNION {disk[f] : f \in listed}

\* the filemap the master sends to local rank i: the entries of the rank
\* itself, and the entries of ranks not on the node dealt out in turn
ScShare(all, i, nlocal) ==
    LET rest == SortedSeq({e \in all : e > nlocal})
    IN {e \in all : e = i + 1}
       \cup {rest[j] : j \in {j \in 1..Len(rest) : (j - 1) % nlocal = i}}

\* the node as a run that returned from the scatter left it, and the start
\* of the next run
InitScatter ==
    /\ IdleXor
    /\ IdleDist
    /\ IdleInit
    /\ IdleFilemap
    /\ IdleFlush
    /\ IdleEvict
    /\ IdleCkpt
    /\ IdleAttempt
    /\ IdleFetch
    /\ IdleXfer
    /\ IdleHalt
    /\ IdleDesc
    /\ IdleWait
    /\ IdleTail
    /\ IdleExchange
    /\ IdleWindow
    /\ IdleMove
    /\ sc_pc = "read"
    /\ sc_local \in 1..MaxScLocal
    /\ \E old \in 1..MaxScLocal, at \in [ScEntries -> {-1} \cup ScFiles] :
          /\ \A e \in ScEntries : at[e] < old
          /\ sc_listed = 0..(old - 1)
          /\ sc_disk = [f \in ScFiles |-> {e \in ScEntries : at[e] = f}]
    /\ sc_todo = sc_listed
    /\ sc_all = {}
    /\ sc_my = [i \in ScFiles |-> {}]
    /\ sc_wrote = {}
    /\ sc_before = ScDiscover(sc_disk, sc_listed)

\* the master reads a filemap listed in the master map, merges it into
\* all_map and unlinks the file
ScReadFile(f) ==
    /\ sc_pc = "read"
    /\ f \in sc_todo
    /\ sc_all' = sc_all \cup sc_disk[f]
    /\ sc_disk' = [sc_disk EXCEPT ![f] = {}]
    /\ sc_todo' = sc_todo \ {f}
    /\ UNCHANGED <<sc_pc, sc_local, sc_listed, sc_my, sc_wrote, sc_before>>

\* the master writes all_map to its own filemap file if it has a rank
ScWriteAll ==
    /\ sc_pc = "read"
    /\ sc_todo = {}
    /\ sc_disk' = IF sc_all # {} THEN [sc_disk EXCEPT ![0] = sc_all] ELSE sc_disk
    /\ sc_pc' = "master"
    /\ UNCHANGED <<sc_local, sc_listed, sc_todo, sc_all, sc_my, sc_wrote, sc_before>>

\* the master splits all_map among the ranks of the node and writes the
\* new master map
ScWriteMaster ==
    /\ sc_pc = "master"
    /\ sc_listed' = ScLocal
    /\ sc_my' = [i \in ScFiles |->
                   IF i \in ScLocal THEN ScShare(sc_all, i, sc_local) ELSE {}]
    /\ sc_all' = {}
    /\ sc_pc' = "write"
    /\ UNCHANGED <<sc_local, sc_disk, sc_todo, sc_wrote, sc_before>>

\* a rank writes the filemap it received to its filemap file if it has a rank
ScWriteMine(i) ==
    /\ sc_pc = "write"
    /\ i \in ScLocal \ sc_wrote
    /\ sc_disk' = IF sc_my[i] # {} THEN [sc_disk EXCEPT ![i] = sc_my[i]] ELSE sc_disk
    /\ sc_wrote' = sc_wrote \cup {i}
    /\ UNCHANGED <<sc_pc, sc_local, sc_listed, sc_todo, sc_all, sc_my, sc_before>>

\* every rank has returned from scr_scatter_filemaps
ScReturn ==
    /\ sc_pc = "write"
    /\ sc_wrote = ScLocal
    /\ sc_pc' = "done"
    /\ UNCHANGED <<sc_local, sc_disk, sc_listed, sc_todo, sc_all, sc_my, sc_wrote,
                   sc_before>>

\* the job dies during the scatter: what is in memory is gone
ScCrash ==
    /\ sc_pc \in {"read", "master", "write"}
    /\ sc_pc' = "crashed"
    /\ sc_all' = {}
    /\ sc_my' = [i \in ScFiles |-> {}]
    /\ sc_todo' = {}
    /\ sc_wrote' = {}
    /\ UNCHANGED <<sc_local, sc_disk, sc_listed, sc_before>>

\* the next run begins its scatter on the node
ScRestart ==
    /\ sc_pc \in {"crashed", "done"}
    /\ sc_pc' = "read"
    /\ sc_local' \in 1..MaxScLocal
    /\ sc_todo' = sc_listed
    /\ sc_all' = {}
    /\ sc_my' = [i \in ScFiles |-> {}]
    /\ sc_wrote' = {}
    /\ sc_before' = ScDiscover(sc_disk, sc_listed)
    /\ UNCHANGED <<sc_disk, sc_listed>>

NextScatter ==
    /\ \/ \E f \in ScFiles : ScReadFile(f)
       \/ ScWriteAll
       \/ ScWriteMaster
       \/ \E i \in ScFiles : ScWriteMine(i)
       \/ ScReturn
       \/ ScCrash
       \/ ScRestart
    /\ UNCHANGED <<xorVars, distVars, initVars, fmVars, flushVars, evictVars,
                   ckptVars, attemptVars, fetchVars, xferVars, haltVars,
                   descVars, waitVars, tailVars, exVars, swVars, moveVars>>

SpecScatter == InitScatter /\ [][NextScatter]_vars

\* C25 as stated: after a crash during scr_scatter_filemaps the filemap
\* files that the master map lists still hold every entry that was recorded
\* on the node when the scatter began
C25_CrashKeepsEntries ==
    (sc_pc = "crashed") => sc_before \subseteq ScDiscover(sc_disk, sc_listed)

\* a scatter that returns keeps every entry
ScReturnKeepsEntries ==
    (sc_pc = "done") => sc_before = ScDiscover(sc_disk, sc_listed)


(***************************************************************************)
(* Checkpoint descriptors: scr_set_partners,                               *)
(* scr_ckptdesc_create_from_hash and scr_ckptdesc_get                      *)
(***************************************************************************)
MaxDsRanks == 3
MaxDsHop == 4
MaxDsInterval == 2
MaxDsCkpts == 2
MaxDsId == 4

DsRanks == 0..(ds_ranks - 1)

\* the values atoi can give the INTERVAL and DISTANCE keys
DsIntervals == (-1)..MaxDsInterval

DsHops == (-MaxDsHop)..MaxDsHop

\* the % of C, for a positive divisor
CRem(a, b) == IF a >= 0 THEN a % b ELSE -((-a) % b)

\* a scr_set_partners that leaves dist as it is given
shift_dist_none(dist, ranks) == dist

\* scr_set_partners: shift partner distance to a valid range
RECURSIVE shift_dist(_, _)
shift_dist(dist, ranks) ==
    IF dist > ranks THEN shift_dist(dist - ranks, ranks)
    ELSE IF dist < 0 THEN shift_dist(dist + ranks, ranks)
    ELSE dist

\* scr_set_partners: the ranks of the left and right partners in comm
scr_set_partners(my_rank, ranks, dist) ==
    LET d == shift_dist(dist, ranks)
    IN [lhs |-> CRem(my_rank + ranks - d, ranks),
        rhs |-> CRem(my_rank + ranks + d, ranks)]

\* the hostname of a rank of scr_comm_level; gethostname never leaves it empty
DsHost(r) == IF r = 0 THEN "node0" ELSE IF r = 1 THEN "node1" ELSE IF r = 2 THEN "node2" ELSE IF r = 3 THEN "node3" ELSE "node4"

\* the colour of MPI_Comm_split for the XOR sets
DsSplitId(r, hop, set_size) == ((r \div hop) \div set_size) * hop + (r % hop)

\* the ranks of scr_comm_level in the checkpoint communicator of rank r, in
\* the order of the communicator
DsComm(r, n, type, hop, set_size) ==
    IF type = SCR_COPY_LOCAL THEN <<r>>
    ELSE IF type = SCR_COPY_PARTNER THEN [i \in 1..n |-> i - 1]
    ELSE SortedSeq({q \in 0..(n - 1) :
                       DsSplitId(q, hop, set_size) = DsSplitId(r, hop, set_size)})

\* the position of r in a communicator
DsRankIn(comm, r) == CHOOSE i \in 1..Len(comm) : comm[i] = r

\* the ranks in the communicator and the hostnames of the partners of rank
\* r; LOCAL has none
DsPartners(r, n, type, hop, set_size) ==
    LET comm == DsComm(r, n, type, hop, set_size)
        p == scr_set_partners(DsRankIn(comm, r) - 1, Len(comm),
                              IF type = SCR_COPY_PARTNER THEN hop ELSE 1)
        host(i) == IF i \in 0..(Len(comm) - 1) THEN DsHost(comm[i + 1]) ELSE ""
    IN IF type = SCR_COPY_LOCAL
       THEN [lhs_rank |-> -1, rhs_rank |-> -1, lhs_hostname |-> "", rhs_hostname |-> ""]
       ELSE [lhs_rank |-> p.lhs, rhs_rank |-> p.rhs,
             lhs_hostname |-> host(p.lhs), rhs_hostname |-> host(p.rhs)]

\* the check for a valid partner node
DsValid(r, type, partners) ==
    \/ type = SCR_COPY_LOCAL
    \/ ~(\/ partners.lhs_hostname = ""
         \/ partners.rhs_hostname = ""
         \/ partners.lhs_hostname = DsHost(r)
         \/ partners.rhs_hostname = DsHost(r))

\* a descriptor that each rank disables on its own
desc_enabled_local(flags, r) == flags[r]

\* if anyone has disabled this checkpoint, everyone needs to:
\* scr_alltrue(c->enabled)
desc_enabled(flags, r) == \A q \in DOMAIN flags : flags[q]

\* scr_ckptdesc_create_from_hash of a hash with a TYPE key on the n ranks
scr_ckptdesc_create_from_hash(n, type, hop, set_size, interval, enabled_in) ==
    LET copy_type == IF n = 1 THEN SCR_COPY_LOCAL ELSE type
        partners == [r \in 0..(n - 1) |-> DsPartners(r, n, copy_type, hop, set_size)]
        flags == [r \in 0..(n - 1) |-> enabled_in[r] /\ DsValid(r, copy_type, partners[r])]
    IN [copy_type |-> copy_type, hop_distance |-> hop, set_size |-> set_size,
        interval |-> interval, partners |-> partners,
        enabled |-> [r \in 0..(n - 1) |-> desc_enabled(flags, r)]]

\* the ENABLED key on the ranks: set on all, cleared on one, or cleared on all
DsEnabledIn(n) ==
    {[r \in 0..(n - 1) |-> r # off] : off \in (-1)..(n - 1)}
    \cup {[r \in 0..(n - 1) |-> FALSE]}

\* a scr_ckptdesc_get that takes the last descriptor that fits
RECURSIVE ckptdesc_get_last(_, _, _, _, _)
ckptdesc_get_last(checkpoint_id, ckpts, i, c, interval) ==
    IF i > Len(ckpts) THEN c
    ELSE IF /\ ckpts[i].enabled
            /\ interval <= ckpts[i].interval
            /\ ckpts[i].interval > 0
            /\ CRem(checkpoint_id, ckpts[i].interval) = 0
    THEN ckptdesc_get_last(checkpoint_id, ckpts, i + 1, i, ckpts[i].interval)
    ELSE ckptdesc_get_last(checkpoint_id, ckpts, i + 1, c, interval)

\* the loop of scr_ckptdesc_get from position i on, with c (0 for NULL) and
\* interval as they stand; the positions count from 1
RECURSIVE ckptdesc_get_loop(_, _, _, _, _)
ckptdesc_get_loop(checkpoint_id, ckpts, i, c, interval) ==
    IF i > Len(ckpts) THEN c
    ELSE IF /\ ckpts[i].enabled
            /\ interval < ckpts[i].interval
            /\ CRem(checkpoint_id, ckpts[i].interval) = 0
    THEN ckptdesc_get_loop(checkpoint_id, ckpts, i + 1, i, ckpts[i].interval)
    ELSE ckptdesc_get_loop(checkpoint_id, ckpts, i + 1, c, interval)

scr_ckptdesc_get(checkpoint_id, ckpts) ==
    ckptdesc_get_loop(checkpoint_id, ckpts, 1, 0, 0)

\* scr_ckptdescs as rank r holds it
DsView(r) ==
    [i \in 1..Len(ds_ckpts) |->
        [enabled |-> ds_ckpts[i].enabled[r], interval |-> ds_ckpts[i].interval]]

InitDesc ==
    /\ IdleXor
    /\ IdleDist
    /\ IdleInit
    /\ IdleFilemap
    /\ IdleFlush
    /\ IdleEvict
    /\ IdleCkpt
    /\ IdleAttempt
    /\ IdleFetch
    /\ IdleXfer
    /\ IdleHalt
    /\ IdleScatter
    /\ IdleWait
    /\ IdleTail
    /\ IdleExchange
    /\ IdleWindow
    /\ IdleMove
    /\ ds_pc = "config"
    /\ ds_ranks \in 1..MaxDsRanks
    /\ ds_ckpts = <<>>
    /\ ds_cur = <<>>
    /\ ds_got = <<>>

\* scr_ckptdesc_create_list calls scr_ckptdesc_create_from_hash for the next
\* descriptor; an XOR descriptor has a distance and a set size of at least 1
DsCreate ==
    /\ ds_pc = "config"
    /\ Len(ds_ckpts) < MaxDsCkpts
    /\ \E type \in {SCR_COPY_LOCAL, SCR_COPY_PARTNER, SCR_COPY_XOR},
          hop \in DsHops, set_size \in 1..MaxDsRanks,
          interval \in DsIntervals, enabled_in \in DsEnabledIn(ds_ranks) :
          /\ type = SCR_COPY_XOR => hop >= 1
          /\ type # SCR_COPY_XOR => set_size = 1
          /\ type = SCR_COPY_LOCAL => hop = 1
          /\ ds_cur' = scr_ckptdesc_create_from_hash(ds_ranks, type, hop, set_size,
                                                     interval, enabled_in)
    /\ ds_pc' = "created"
    /\ UNCHANGED <<ds_ranks, ds_ckpts, ds_got>>

\* the descriptor takes its place in scr_ckptdescs
DsStore ==
    /\ ds_pc = "created"
    /\ ds_ckpts' = Append(ds_ckpts, [enabled |-> ds_cur.enabled,
                                     interval |-> ds_cur.interval])
    /\ ds_cur' = <<>>
    /\ ds_pc' = "config"
    /\ UNCHANGED <<ds_ranks, ds_got>>

\* scr_ckptdesc_create_list returns
DsListed ==
    /\ ds_pc = "config"
    /\ Len(ds_ckpts) >= 1
    /\ ds_pc' = "ready"
    /\ UNCHANGED <<ds_ranks, ds_ckpts, ds_cur, ds_got>>

\* a rank calls scr_ckptdesc_get(checkpoint_id, scr_nckptdescs, scr_ckptdescs)
DsGet(checkpoint_id, r) ==
    /\ ds_pc = "ready"
    /\ r \in DsRanks
    /\ ds_got' = [id |-> checkpoint_id, rank |-> r,
                  c |-> scr_ckptdesc_get(checkpoint_id, DsView(r))]
    /\ UNCHANGED <<ds_pc, ds_ranks, ds_ckpts, ds_cur>>

NextDesc ==
    /\ \/ DsCreate
       \/ DsStore
       \/ DsListed
       \/ \E id \in 1..MaxDsId, r \in 0..(MaxDsRanks - 1) : DsGet(id, r)
    /\ UNCHANGED <<xorVars, distVars, initVars, fmVars, flushVars, evictVars,
                   ckptVars, attemptVars, fetchVars, xferVars, haltVars,
                   scatterVars, waitVars, tailVars, exVars, swVars, moveVars>>

SpecDesc == InitDesc /\ [][NextDesc]_vars


\* d divides n, for n >= 1
DsDivides(d, n) == \E k \in (-n)..n : n = k * d

\* the descriptors among which C27 lets scr_ckptdesc_get choose
DsFit(view, id) ==
    {i \in 1..Len(view) : view[i].enabled /\ DsDivides(view[i].interval, id)}

DsFitPositive(view, id) ==
    {i \in 1..Len(view) :
        view[i].enabled /\ view[i].interval > 0 /\ DsDivides(view[i].interval, id)}

\* c is the first of the descriptors of fit with the largest interval, or
\* 0 if there is none
DsFirstLargest(view, fit, c) ==
    IF fit = {} THEN c = 0
    ELSE /\ c \in fit
         /\ \A i \in fit : view[i].interval <= view[c].interval
         /\ \A i \in fit : view[i].interval = view[c].interval => c <= i

DsNeedsPartners ==
    ds_pc = "created" /\ ds_cur.copy_type \in {SCR_COPY_PARTNER, SCR_COPY_XOR}

DsBadPartner(r) ==
    \/ ds_cur.partners[r].lhs_hostname = ""
    \/ ds_cur.partners[r].rhs_hostname = ""
    \/ ds_cur.partners[r].lhs_hostname = DsHost(r)
    \/ ds_cur.partners[r].rhs_hostname = DsHost(r)

\* C28: a PARTNER or XOR descriptor that was just created is enabled on all
\* ranks or on none, and on none if the left or right partner of some rank
\* has an empty hostname or the hostname of the rank
C28_EnabledUniform ==
    DsNeedsPartners =>
        /\ \A r, q \in DsRanks : ds_cur.enabled[r] = ds_cur.enabled[q]
        /\ (\E r \in DsRanks : DsBadPartner(r)) =>
               \A r \in DsRanks : ~ds_cur.enabled[r]

C28_Witness ==
    /\ DsNeedsPartners
    /\ \E r \in DsRanks : DsBadPartner(r)
    /\ \E r \in DsRanks : ~DsBadPartner(r)
    /\ \A r \in DsRanks : ~ds_cur.enabled[r]

\* the distance scr_ckptdesc_create_from_hash passes to scr_set_partners
DsDist == IF ds_cur.copy_type = SCR_COPY_PARTNER THEN ds_cur.hop_distance ELSE 1

\* C29: for every distance and every size of the communicator,
\* scr_set_partners ends with lhs = (rank - hop) mod size and
\* rhs = (rank + hop) mod size, both in 0..size-1
C29_PartnersModulo ==
    DsNeedsPartners =>
        \A r \in DsRanks :
           LET comm == DsComm(r, ds_ranks, ds_cur.copy_type, ds_cur.hop_distance,
                              ds_cur.set_size)
               me == DsRankIn(comm, r) - 1
               size == Len(comm)
           IN /\ ds_cur.partners[r].lhs_rank = (me - DsDist) % size
              /\ ds_cur.partners[r].rhs_rank = (me + DsDist) % size
              /\ ds_cur.partners[r].lhs_rank \in 0..(size - 1)
              /\ ds_cur.partners[r].rhs_rank \in 0..(size - 1)

C29_Witness ==
    /\ ds_pc = "created"
    /\ ds_cur.copy_type = SCR_COPY_PARTNER
    /\ ds_ranks = MaxDsRanks
    /\ ds_cur.hop_distance < -ds_ranks
    /\ ds_cur.partners[0].lhs_rank # ds_cur.partners[0].rhs_rank
    /\ ds_cur.partners[0].lhs_rank # 0


\* the largest total of file bytes of a member of the group
XorMaxBytes == SetMax({SeqSum(FileSizes(xor_orig[q])) : q \in XorGroup})

\* the ceiling of a / b
XorCeiling(a, b) == CHOOSE c \in 0..a : c * b >= a /\ \A d \in 0..(c - 1) : d * b < a

\* C30: every member of the group that holds an XOR artifact records the
\* same chunk size in it, the ceiling of max_bytes / (group size - 1), or 1
\* when that ceiling is 0
C30_ChunkSize ==
    \A r \in XorGroup :
       xor_art[r].present =>
          xor_art[r].chunk_size =
             (IF XorCeiling(XorMaxBytes, xor_ranks - 1) = 0 THEN 1
              ELSE XorCeiling(XorMaxBytes, xor_ranks - 1))

C30_Witness ==
    /\ xor_pc = "encoded"
    /\ xor_ranks = 3
    /\ \A r \in XorGroup : xor_art[r].present /\ xor_art[r].chunk_size = 2
    /\ XorMaxBytes = 3
    /\ \E r \in XorGroup : SeqSum(FileSizes(xor_orig[r])) < XorMaxBytes


\* the original statement of C31: the chunk of every XOR artifact is as long
\* as the ceiling of max_bytes / (group size - 1)
C31_PayloadIsCeiling ==
    \A r \in XorGroup :
       xor_art[r].present =>
          Len(xor_art[r].chunk) = XorCeiling(XorMaxBytes, xor_ranks - 1)

\* C31: the chunk of every member's XOR artifact is as long as the ceiling
\* of max_bytes / (group size - 1), and one byte long when that ceiling is 0
C31_PayloadIsChunkSize ==
    \A r \in XorGroup :
       xor_art[r].present =>
          Len(xor_art[r].chunk) =
             (IF XorCeiling(XorMaxBytes, xor_ranks - 1) = 0 THEN 1
              ELSE XorCeiling(XorMaxBytes, xor_ranks - 1))

\* a group of two whose largest member holds more bytes than one message
\* buffer has encoded
C31_Witness ==
    /\ xor_pc = "encoded"
    /\ xor_ranks = 2
    /\ XorMaxBytes > MpiBufSize
    /\ \A r \in XorGroup : xor_art[r].present /\ Len(xor_art[r].chunk) = XorMaxBytes
    /\ \E r \in XorGroup : SeqSum(FileSizes(xor_orig[r])) = 0

\* C38: after scr_rebuild_xor the chunk of the root's XOR artifact is the
\* chunk that member wrote in scr_copy_xor, and so is every other member's
C38_RebuiltChunkIsEncoded ==
    xor_pc = "rebuilt" =>
       \A r \in XorGroup :
          /\ xor_art[r].present
          /\ xor_art[r].chunk = copy_xor_artifact(xor_orig, xor_ranks, r).chunk

\* a member of a group of three was rebuilt with a chunk of two bytes that
\* are not both zero
C38_Witness ==
    /\ xor_pc = "rebuilt"
    /\ xor_ranks = 3
    /\ Len(xor_art[xor_root].chunk) = 2
    /\ \E i \in 1..2 : xor_art[xor_root].chunk[i] # 0
    /\ xor_root = 1

(***************************************************************************)
(* scr_flush_async_wait: the library polls the transfer files until the    *)
(* flush it started is complete, while the mover of every node copies      *)
(***************************************************************************)
\* the state scr_flush_async_start leaves when it succeeds; without a flush
\* in progress nothing is marked and no file is queued
InitWait ==
    /\ IdleXor
    /\ IdleDist
    /\ IdleInit
    /\ IdleFilemap
    /\ IdleFlush
    /\ IdleEvict
    /\ IdleCkpt
    /\ IdleAttempt
    /\ IdleFetch
    /\ IdleXfer
    /\ IdleHalt
    /\ IdleScatter
    /\ IdleDesc
    /\ IdleTail
    /\ IdleExchange
    /\ IdleWindow
    /\ IdleMove
    /\ wt_pc = "call"
    /\ wt_in_progress \in BOOLEAN
    /\ wt_hash \in [XfNodes -> {{}, XfFiles}]
    /\ ~wt_in_progress => wt_hash = [n \in XfNodes |-> {}]
    /\ wt_flushing = [n \in XfNodes |-> wt_in_progress]
    /\ wt_file = [n \in XfNodes |->
                    IF wt_in_progress THEN async_start_write(NoTransfer, wt_hash[n])
                    ELSE NoTransfer]
    /\ wt_have = [n \in XfNodes |-> TRUE]
    /\ wt_seen = [n \in XfNodes |-> "none"]

\* if (scr_flush_async_in_progress)
WtEnter ==
    /\ wt_pc = "call"
    /\ wt_pc' = IF wt_in_progress THEN "loop" ELSE "returned"
    /\ UNCHANGED <<wt_in_progress, wt_flushing, wt_file, wt_hash, wt_have, wt_seen>>

\* while (scr_bool_is_flushing(scr_flush_async_checkpoint_id))
WtLoop ==
    /\ wt_pc = "loop"
    /\ wt_pc' = IF \E n \in XfNodes : wt_flushing[n] THEN "test" ELSE "returned"
    /\ UNCHANGED <<wt_in_progress, wt_flushing, wt_file, wt_hash, wt_have, wt_seen>>

\* scr_flush_async_test up to scr_alltrue(have_files)
WtTestBegin ==
    /\ wt_pc = "test"
    /\ wt_pc' = IF \A n \in XfNodes : wt_have[n] THEN "read" ELSE "sleep"
    /\ wt_seen' = [n \in XfNodes |-> "none"]
    /\ UNCHANGED <<wt_in_progress, wt_flushing, wt_file, wt_hash, wt_have>>

\* the master of node n reads its transfer file and tests the files in it
WtTestRead(n) ==
    /\ wt_pc = "read"
    /\ wt_seen[n] = "none"
    /\ wt_seen' = [wt_seen EXCEPT ![n] =
                     IF scr_flush_async_file_test(wt_file[n]) THEN "yes" ELSE "no"]
    /\ UNCHANGED <<wt_pc, wt_in_progress, wt_flushing, wt_file, wt_hash, wt_have>>

\* scr_alltrue(transfer_complete): complete the flush, or sleep
WtTestEnd ==
    /\ wt_pc = "read"
    /\ \A n \in XfNodes : wt_seen[n] # "none"
    /\ wt_pc' = IF \A n \in XfNodes : wt_seen[n] = "yes" THEN "complete" ELSE "sleep"
    /\ UNCHANGED <<wt_in_progress, wt_flushing, wt_file, wt_hash, wt_have, wt_seen>>

\* usleep, then the loop condition again
WtSleep ==
    /\ wt_pc = "sleep"
    /\ wt_pc' = "loop"
    /\ UNCHANGED <<wt_in_progress, wt_flushing, wt_file, wt_hash, wt_have, wt_seen>>

\* scr_flush_async_complete: it fails when a rank misses a file; otherwise
\* the flag and the FLUSHING mark are cleared and the files leave the
\* transfer file
WtComplete ==
    /\ wt_pc = "complete"
    /\ IF \A n \in XfNodes : wt_have[n]
       THEN /\ wt_in_progress' = FALSE
            /\ wt_flushing' = [n \in XfNodes |-> FALSE]
            /\ \E keeps \in BOOLEAN :
                  wt_file' = [n \in XfNodes |->
                                async_complete_write(wt_file[n], wt_hash[n], keeps)]
            /\ wt_hash' = [n \in XfNodes |-> {}]
       ELSE UNCHANGED <<wt_in_progress, wt_flushing, wt_file, wt_hash>>
    /\ wt_pc' = "loop"
    /\ UNCHANGED <<wt_have, wt_seen>>

\* the mover of a node follows the command in the transfer file
WtMoverState(n) ==
    /\ wt_file[n].command \in {"RUN", "STOP"}
    /\ wt_file[n].state # wt_file[n].command
    /\ wt_file' = [wt_file EXCEPT ![n].state = wt_file[n].command]
    /\ UNCHANGED <<wt_pc, wt_in_progress, wt_flushing, wt_hash, wt_have, wt_seen>>

\* the mover copies a block of a file and records it in WRITTEN
WtMoverWrite(n) ==
    /\ wt_file[n].state = "RUN"
    /\ \E f \in XfListed(wt_file[n]) :
          /\ wt_file[n].written[f] < XfSize(f)
          /\ LET written == [wt_file[n].written EXCEPT ![f] = @ + 1]
             IN wt_file' = [wt_file EXCEPT
                   ![n].written = written,
                   ![n].done = \A g \in XfListed(wt_file[n]) : written[g] >= XfSize(g)]
    /\ UNCHANGED <<wt_pc, wt_in_progress, wt_flushing, wt_hash, wt_have, wt_seen>>

\* a cache file of a rank of node n is lost while the flush runs
WtLoseFile(n) ==
    /\ wt_pc \notin {"call", "returned"}
    /\ wt_hash[n] # {}
    /\ wt_have[n]
    /\ wt_have' = [wt_have EXCEPT ![n] = FALSE]
    /\ UNCHANGED <<wt_pc, wt_in_progress, wt_flushing, wt_file, wt_hash, wt_seen>>

\* the steps of the library
WtLibrary ==
    \/ WtEnter
    \/ WtLoop
    \/ WtTestBegin
    \/ \E n \in XfNodes : WtTestRead(n)
    \/ WtTestEnd
    \/ WtSleep
    \/ WtComplete

NextWait ==
    /\ \/ WtLibrary
       \/ \E n \in XfNodes : WtMoverState(n)
       \/ \E n \in XfNodes : WtMoverWrite(n)
       \/ \E n \in XfNodes : WtLoseFile(n)
    /\ UNCHANGED <<xorVars, distVars, initVars, fmVars, flushVars, evictVars,
                   ckptVars, attemptVars, fetchVars, xferVars, haltVars,
                   scatterVars, descVars, tailVars, exVars, swVars, moveVars>>

\* the library and every mover keep running; a file need not be lost
SpecWait ==
    /\ InitWait
    /\ [][NextWait]_vars
    /\ WF_waitVars(WtLibrary)
    /\ \A n \in XfNodes : WF_waitVars(WtMoverState(n)) /\ WF_waitVars(WtMoverWrite(n))

\* on every node the mover has written every byte queued in the transfer file
WtAllWritten ==
    \A n \in XfNodes : \A f \in XfListed(wt_file[n]) : wt_file[n].written[f] >= XfSize(f)

WtReturned == wt_pc = "returned" /\ \A n \in XfNodes : ~wt_flushing[n]

\* C35: once the mover has written every queued byte on every node,
\* scr_flush_async_wait returns after finitely many polls with the
\* checkpoint no longer marked FLUSHING, also when a node has no file
\* entries in its transfer file or a rank no longer has all of its files
C35_WaitReturns == WtAllWritten ~> WtReturned

\* scr_flush_async_start has returned failure
XfStartFailed == xf_call = "none" /\ xf_ret.name = "start" /\ xf_ret.rc = SCR_FAILURE

\* C33: when scr_flush_async_start has returned failure, the checkpoint is
\* not marked FLUSHING in the flush file of any node and the in-progress
\* flag is clear on every rank
C33_StartFailureClean ==
    XfStartFailed => \A n \in XfNodes : ~xf_flushing[n] /\ ~xf_in_progress[n]

\* C36: when the restart from cache has failed and the fetch has failed or
\* is disabled, SCR_Init returns success on every rank, no rank holds a
\* file of any checkpoint in its cache, and scr_checkpoint_id is 0 on every
\* rank
C36_InitSucceedsEmpty ==
    (init_pc = "returned" /\ init_fetch \in {"failed", "disabled"}) =>
        /\ \A p \in InitProcs : init_ret[p] = SCR_SUCCESS
        /\ \A k \in Ckpts, p, r \in InitProcs : init_map[k][p][r] = NoEntry
        /\ \A p \in InitProcs : init_checkpoint_id[p] = 0

\* SCR_Init has returned after the cache held checkpoints none of which
\* could be restored and after every try to fetch one failed
C36_Witness ==
    /\ init_pc = "returned"
    /\ init_fetch = "failed"
    /\ init_tried # <<>>
    /\ init_usable = {}
    /\ \A p \in InitProcs : init_ret[p] = SCR_SUCCESS /\ init_checkpoint_id[p] = 0
    /\ \A k \in Ckpts, p, r \in InitProcs : init_map[k][p][r] = NoEntry

\* the step in which scr_copy_files fails after every rank fetched its files
FtCopyFails ==
    /\ \A r \in FtRanks : ft_pc[r] = "copy"
    /\ \A r \in FtRanks : ft_pc'[r] = "returned" /\ ft_rc'[r] = SCR_FAILURE

\* C34: when scr_fetch_files has fetched every file and the redundancy
\* encode that follows fails, then on return no rank has a file or a filemap
\* entry of the fetched checkpoint
C34_CopyFailureCleans ==
    [][FtCopyFails =>
          /\ \A r \in FtRanks : ft_map'[r] = NoFtEntry
          /\ \A n \in FtNodes : ft_disk'[n] = {}]_vars

(***************************************************************************)
(* The round loop of scr_distribute_files, process by process: the         *)
(* messages each process sends and the receives it blocks in               *)
(***************************************************************************)
ExProcs == 0..(ex_world - 1)

\* scr_filemap_num_files(map, checkpoint_id, dst_rank)
scr_filemap_num_files(map, rank) == Cardinality(map[rank].listed)

\* the locals of a process at the top of a round
ExTop(round, got) ==
    [pc |-> "top", round |-> round, send_rank |-> MPI_PROC_NULL,
     recv_rank |-> MPI_PROC_NULL, send_num |-> 0, recv_num |-> 0, got |-> got]

\* MPI_Isend of one message
ExSend(chan, from, to, msg) ==
    IF to = MPI_PROC_NULL THEN chan
    ELSE [chan EXCEPT ![from][to] = Append(@, msg)]

\* the matching MPI_Irecv, completed
ExTake(chan, from, to) ==
    IF from = MPI_PROC_NULL THEN chan
    ELSE [chan EXCEPT ![from][to] = Tail(@)]

\* a process that had a cache of the balanced layout of another node, or,
\* on a spare node, an empty cache
ExEntryMaps(world, copy) ==
    {[p \in 0..(world - 1) |->
         IF p \in lost THEN [r \in 0..(world - 1) |-> NoEntry]
         ELSE BalancedMap(world, copy)[(p + shift) % world]] :
       shift \in 0..(world - 1),
       lost \in {s \in SUBSET (0..(world - 1)) : Cardinality(s) <= 1}}

\* the state in which the processes enter the round loop
InitExchange ==
    /\ IdleXor
    /\ IdleDist
    /\ IdleInit
    /\ IdleFilemap
    /\ IdleFlush
    /\ IdleEvict
    /\ IdleCkpt
    /\ IdleAttempt
    /\ IdleFetch
    /\ IdleXfer
    /\ IdleHalt
    /\ IdleScatter
    /\ IdleDesc
    /\ IdleWait
    /\ IdleTail
    /\ IdleWindow
    /\ IdleMove
    /\ ex_world \in 2..MaxDistRanks
    /\ \E copy \in {SCR_COPY_LOCAL, SCR_COPY_PARTNER, SCR_COPY_XOR} :
       \E entry \in ExEntryMaps(ex_world, copy) :
          LET cleaned == [p \in ExProcs |-> scr_clean_files(entry[p])]
              offers  == offer_table(cleaned, ExProcs)
              cands   == [q \in ExProcs |-> retrieve_candidates(offers, ExProcs, q)]
          IN /\ ex_map = cleaned
             /\ \E choice \in retrieve_choices(cands, ex_world) :
                   LET retrieve == retrieve_of(offers, ExProcs, choice)
                   IN /\ copy = SCR_COPY_XOR \/ \A q \in ExProcs : retrieve[q].rank # -1
                      /\ ex_plan = plan_of(cleaned, ExProcs, retrieve)
    /\ ex_proc = [p \in ExProcs |-> ExTop(0, 0)]
    /\ ex_chan = [p \in ExProcs |-> [q \in ExProcs |-> <<>>]]
    /\ ex_bad = FALSE

\* the locals after a completed exchange, and the next file posted if one
\* is left: while (have_incoming || have_outgoing)
ExLoop(p, me, chan) ==
    IF me.send_num = 0 /\ me.recv_num = 0
    THEN /\ ex_proc' = [ex_proc EXCEPT ![p] = ExTop(me.round + 1, me.got)]
         /\ ex_chan' = chan
    ELSE /\ ex_proc' = [ex_proc EXCEPT ![p] = [me EXCEPT !.pc = "file"]]
         /\ ex_chan' = ExSend(chan, p, me.send_rank, [kind |-> "file"])

\* the top of a round: send_rank, recv_rank and send_num; a process that
\* sends to itself renames its files; one that sends or receives posts the
\* exchange of the file counts
ExRound(p) ==
    /\ ex_proc[p].pc = "top"
    /\ LET me == ex_proc[p]
           sr == send_rank(ex_plan, p, me.round)
           rr == recv_rank(ex_plan, p, me.round)
           sn == IF sr = MPI_PROC_NULL THEN 0 ELSE scr_filemap_num_files(ex_map[p], sr)
       IN IF me.round > max_rounds(ex_plan, ExProcs)
          THEN /\ ex_proc' = [ex_proc EXCEPT ![p].pc = "done"]
               /\ UNCHANGED ex_chan
          ELSE IF sr = p \/ (sr = MPI_PROC_NULL /\ rr = MPI_PROC_NULL)
          THEN /\ ex_proc' = [ex_proc EXCEPT ![p] = ExTop(me.round + 1, me.got)]
               /\ UNCHANGED ex_chan
          ELSE /\ ex_proc' = [ex_proc EXCEPT ![p] =
                     [me EXCEPT !.pc = "count", !.send_rank = sr, !.recv_rank = rr,
                                !.send_num = sn]]
               /\ ex_chan' = ExSend(ex_chan, p, sr, [kind |-> "count", num |-> sn])
    /\ UNCHANGED <<ex_world, ex_map, ex_plan, ex_bad>>

\* MPI_Waitall of the file counts: recv_num arrives; a count of 0 turns the
\* direction off
ExCount(p) ==
    /\ ex_proc[p].pc = "count"
    /\ LET me == ex_proc[p]
           rr == me.recv_rank
       IN /\ rr # MPI_PROC_NULL => ex_chan[rr][p] # <<>>
          /\ LET msg == IF rr = MPI_PROC_NULL THEN [kind |-> "count", num |-> 0]
                        ELSE Head(ex_chan[rr][p])
                 rn == IF msg.kind = "count" THEN msg.num ELSE 1
                 me2 == [me EXCEPT !.recv_num = rn,
                            !.send_rank = IF me.send_num = 0 THEN MPI_PROC_NULL ELSE @,
                            !.recv_rank = IF rn = 0 THEN MPI_PROC_NULL ELSE @]
             IN /\ ex_bad' = (ex_bad \/ msg.kind # "count")
                /\ ExLoop(p, me2, ExTake(ex_chan, rr, p))
    /\ UNCHANGED <<ex_world, ex_map, ex_plan>>

\* scr_swap_file_names and scr_swap_files of one file, then the counts go
\* down
ExFile(p) ==
    /\ ex_proc[p].pc = "file"
    /\ LET me == ex_proc[p]
           rr == me.recv_rank
       IN /\ rr # MPI_PROC_NULL => ex_chan[rr][p] # <<>>
          /\ LET kind == IF rr = MPI_PROC_NULL THEN "file" ELSE Head(ex_chan[rr][p]).kind
                 rn == IF rr = MPI_PROC_NULL THEN 0 ELSE me.recv_num - 1
                 sn == IF me.send_rank = MPI_PROC_NULL THEN 0 ELSE me.send_num - 1
                 me2 == [me EXCEPT !.recv_num = rn, !.send_num = sn,
                            !.got = IF rr = MPI_PROC_NULL THEN @ ELSE @ + 1,
                            !.send_rank = IF sn = 0 THEN MPI_PROC_NULL ELSE @,
                            !.recv_rank = IF rn = 0 THEN MPI_PROC_NULL ELSE @]
             IN /\ ex_bad' = (ex_bad \/ kind # "file")
                /\ ExLoop(p, me2, ExTake(ex_chan, rr, p))
    /\ UNCHANGED <<ex_world, ex_map, ex_plan>>

NextExchange ==
    /\ \/ \E p \in ExProcs : ExRound(p)
       \/ \E p \in ExProcs : ExCount(p)
       \/ \E p \in ExProcs : ExFile(p)
    /\ UNCHANGED <<xorVars, distVars, initVars, fmVars, flushVars, evictVars,
                   ckptVars, attemptVars, fetchVars, xferVars, haltVars,
                   scatterVars, descVars, waitVars, tailVars, swVars, moveVars>>

SpecExchange == InitExchange /\ [][NextExchange]_vars

ExAllDone == \A p \in ExProcs : ex_proc[p].pc = "done"

\* the process is not blocked in a receive
ExCanStep(p) ==
    \/ ex_proc[p].pc = "top"
    \/ /\ ex_proc[p].pc \in {"count", "file"}
       /\ ex_proc[p].recv_rank # MPI_PROC_NULL =>
             ex_chan[ex_proc[p].recv_rank][p] # <<>>

\* the files process q is to receive from the process it retrieves from
ExDue(q) ==
    IF ex_plan[q].retrieve_rank \in ExProcs \ {q}
    THEN scr_filemap_num_files(ex_map[ex_plan[q].retrieve_rank], q)
    ELSE 0

\* C40: in every round p sends to q if and only if q receives from p; the
\* count and the files a process receives are those its partner sent, so
\* no message is left over and each process receives as many files as its
\* partner held for it; and no process is left blocked in an exchange, so
\* the round loop ends on every process
C40_ExchangeMatches ==
    /\ \A k \in 0..max_rounds(ex_plan, ExProcs) : \A p, q \in ExProcs :
          p # q =>
             ((send_rank(ex_plan, p, k) = q) <=> (recv_rank(ex_plan, q, k) = p))
    /\ ~ex_bad
    /\ \A p \in ExProcs :
          ex_proc[p].pc = "file" /\ ex_proc[p].recv_rank # MPI_PROC_NULL =>
             ex_proc[p].recv_num + ex_proc[p].got = ExDue(p)
    /\ ExAllDone \/ \E p \in ExProcs : ExCanStep(p)
    /\ ExAllDone =>
          /\ \A p, q \in ExProcs : ex_chan[p][q] = <<>>
          /\ \A q \in ExProcs : ex_proc[q].got = ExDue(q)

\* the loop has ended after a round in which a process sent the files of one
\* process and received its own files from another
C40_Witness ==
    /\ ExAllDone
    /\ ex_world = MaxDistRanks
    /\ \E p \in ExProcs : \E k \in 0..max_rounds(ex_plan, ExProcs) :
          /\ send_rank(ex_plan, p, k) \in ExProcs \ {p}
          /\ recv_rank(ex_plan, p, k) \in ExProcs \ {p}
          /\ send_rank(ex_plan, p, k) # recv_rank(ex_plan, p, k)
          /\ ex_proc[p].got = 2
    /\ \E q \in ExProcs : ExDue(q) = 1 /\ ex_proc[q].got = 1

(***************************************************************************)
(* scr_flush_files: the sliding window in which rank 0 lets the other      *)
(* ranks write to the parallel file system                                 *)
(***************************************************************************)
MaxSwRanks == 4
MaxSwWidth == 3

SwOthers == 1..(sw_ranks - 1)

\* w = scr_flush_width; if (w > scr_ranks_world-1) w = scr_ranks_world-1
window_width(width, ranks) == IF width > ranks - 1 THEN ranks - 1 ELSE width

\* a window that takes every rank at once
can_issue_all(i, ranks, outstanding, w) == i < ranks

\* while (i < scr_ranks_world && outstanding < w)
can_issue(i, ranks, outstanding, w) == i < ranks /\ outstanding < w

\* the slots of the request arrays whose receive is posted and not complete
SwActive(zero) == {s \in DOMAIN zero.req_recv : zero.req_recv[s]}

InitWindow ==
    /\ IdleXor
    /\ IdleDist
    /\ IdleInit
    /\ IdleFilemap
    /\ IdleFlush
    /\ IdleEvict
    /\ IdleCkpt
    /\ IdleAttempt
    /\ IdleFetch
    /\ IdleXfer
    /\ IdleHalt
    /\ IdleScatter
    /\ IdleDesc
    /\ IdleWait
    /\ IdleTail
    /\ IdleExchange
    /\ IdleMove
    /\ sw_ranks \in 1..MaxSwRanks
    /\ sw_width \in 0..MaxSwWidth
    /\ LET w == window_width(sw_width, sw_ranks)
       IN sw_zero = [pc |-> "loop", w |-> w, i |-> 1, outstanding |-> 0, index |-> 0,
                     ranks |-> [s \in 0..(w - 1) |-> 0],
                     req_recv |-> [s \in 0..(w - 1) |-> FALSE]]
    /\ sw_pc = [r \in SwOthers |-> "recv"]
    /\ sw_start = [r \in SwOthers |-> 0]
    /\ sw_bytes = [r \in SwOthers |-> 0]
    /\ sw_hash = [r \in SwOthers |-> 0]
    /\ sw_tokens = [r \in SwOthers |-> 0]
    /\ sw_replies = [r \in SwOthers |-> 0]

\* rank 0 assigns rank i to the slot at index, posts the receive of its
\* reply and sends it the start message; a slot outside the arrays is
\* undefined behaviour
SwIssue ==
    /\ sw_zero.pc = "loop"
    /\ can_issue(sw_zero.i, sw_ranks, sw_zero.outstanding, sw_zero.w)
    /\ IF sw_zero.index \in DOMAIN sw_zero.ranks
       THEN /\ sw_zero' = [sw_zero EXCEPT !.ranks[sw_zero.index] = sw_zero.i,
                                          !.req_recv[sw_zero.index] = TRUE,
                                          !.i = @ + 1,
                                          !.outstanding = @ + 1,
                                          !.index = @ + 1]
            /\ sw_start' = [sw_start EXCEPT ![sw_zero.i] = @ + 1]
       ELSE /\ sw_zero' = [sw_zero EXCEPT !.pc = "undefined"]
            /\ UNCHANGED sw_start
    /\ UNCHANGED <<sw_ranks, sw_width, sw_pc, sw_bytes, sw_hash, sw_tokens, sw_replies>>

\* MPI_Waitany on the receives and MPI_Wait on the send of that slot: with
\* no active receive MPI_Waitany returns at once with MPI_UNDEFINED, and
\* the MPI_Wait indexes the array with it
SwWaitany ==
    /\ sw_zero.pc = "loop"
    /\ ~can_issue(sw_zero.i, sw_ranks, sw_zero.outstanding, sw_zero.w)
    /\ sw_zero.i < sw_ranks \/ sw_zero.outstanding > 0
    /\ IF SwActive(sw_zero) = {}
       THEN /\ sw_zero' = [sw_zero EXCEPT !.pc = "undefined"]
            /\ UNCHANGED <<sw_bytes, sw_replies>>
       ELSE \E s \in SwActive(sw_zero) :
               /\ sw_bytes[sw_zero.ranks[s]] > 0
               /\ sw_bytes' = [sw_bytes EXCEPT ![sw_zero.ranks[s]] = @ - 1]
               /\ sw_replies' = [sw_replies EXCEPT ![sw_zero.ranks[s]] = @ + 1]
               /\ sw_zero' = [sw_zero EXCEPT !.pc = "hash", !.index = s,
                                             !.req_recv[s] = FALSE]
    /\ UNCHANGED <<sw_ranks, sw_width, sw_pc, sw_start, sw_hash, sw_tokens>>

\* scr_hash_recv from the rank of the slot, then one request less
SwHashRecv ==
    /\ sw_zero.pc = "hash"
    /\ sw_hash[sw_zero.ranks[sw_zero.index]] > 0
    /\ sw_hash' = [sw_hash EXCEPT ![sw_zero.ranks[sw_zero.index]] = @ - 1]
    /\ sw_zero' = [sw_zero EXCEPT !.pc = "loop", !.outstanding = @ - 1]
    /\ UNCHANGED <<sw_ranks, sw_width, sw_pc, sw_start, sw_bytes, sw_tokens, sw_replies>>

\* the window loop ends
SwExit ==
    /\ sw_zero.pc = "loop"
    /\ ~(sw_zero.i < sw_ranks \/ sw_zero.outstanding > 0)
    /\ sw_zero' = [sw_zero EXCEPT !.pc = "done"]
    /\ UNCHANGED <<sw_ranks, sw_width, sw_pc, sw_start, sw_bytes, sw_hash, sw_tokens,
                   sw_replies>>

\* a non-zero rank receives the signal to start
SwRecvStart(r) ==
    /\ sw_pc[r] = "recv"
    /\ sw_start[r] > 0
    /\ sw_start' = [sw_start EXCEPT ![r] = @ - 1]
    /\ sw_tokens' = [sw_tokens EXCEPT ![r] = @ + 1]
    /\ sw_pc' = [sw_pc EXCEPT ![r] = "flush"]
    /\ UNCHANGED <<sw_ranks, sw_width, sw_zero, sw_bytes, sw_hash, sw_replies>>

\* it flushes its files and sends its byte count to rank 0
SwSendBytes(r) ==
    /\ sw_pc[r] = "flush"
    /\ sw_bytes' = [sw_bytes EXCEPT ![r] = @ + 1]
    /\ sw_pc' = [sw_pc EXCEPT ![r] = "hash"]
    /\ UNCHANGED <<sw_ranks, sw_width, sw_zero, sw_start, sw_hash, sw_tokens, sw_replies>>

\* it sends its summary hash to rank 0
SwSendHash(r) ==
    /\ sw_pc[r] = "hash"
    /\ sw_hash' = [sw_hash EXCEPT ![r] = @ + 1]
    /\ sw_pc' = [sw_pc EXCEPT ![r] = "done"]
    /\ UNCHANGED <<sw_ranks, sw_width, sw_zero, sw_start, sw_bytes, sw_tokens, sw_replies>>

NextWindow ==
    /\ \/ SwIssue
       \/ SwWaitany
       \/ SwHashRecv
       \/ SwExit
       \/ \E r \in SwOthers : SwRecvStart(r)
       \/ \E r \in SwOthers : SwSendBytes(r)
       \/ \E r \in SwOthers : SwSendHash(r)
    /\ UNCHANGED <<xorVars, distVars, initVars, fmVars, flushVars, evictVars,
                   ckptVars, attemptVars, fetchVars, xferVars, haltVars,
                   scatterVars, descVars, waitVars, tailVars, exVars, moveVars>>

SpecWindow == InitWindow /\ [][NextWindow]_vars

\* the start messages rank 0 has sent to rank r
SwSent(r) == IF r < sw_zero.i THEN 1 ELSE 0

\* the ranks that were sent a start message and have not finished answering
SwHolders == {r \in SwOthers : r < sw_zero.i /\ sw_pc[r] # "done"}

SwAllDone == sw_zero.pc = "done" /\ \A r \in SwOthers : sw_pc[r] = "done"

\* some rank is not blocked
SwCanStep ==
    \/ sw_zero.pc = "loop" /\ can_issue(sw_zero.i, sw_ranks, sw_zero.outstanding, sw_zero.w)
    \/ /\ sw_zero.pc = "loop"
       /\ \/ SwActive(sw_zero) = {}
          \/ \E s \in SwActive(sw_zero) : sw_bytes[sw_zero.ranks[s]] > 0
    \/ sw_zero.pc = "hash" /\ sw_hash[sw_zero.ranks[sw_zero.index]] > 0
    \/ \E r \in SwOthers : sw_pc[r] \in {"flush", "hash"}
    \/ \E r \in SwOthers : sw_pc[r] = "recv" /\ sw_start[r] > 0

\* every non-zero rank receives the start message at most once and rank 0
\* its reply at most once, exactly once when the loop has ended; no more
\* than scr_flush_width ranks hold a start message they have not answered;
\* no rank is left blocked and rank 0 steps into nothing undefined
SwWindowed ==
    /\ \A r \in SwOthers :
          /\ sw_tokens[r] + sw_start[r] = SwSent(r)
          /\ sw_replies[r] <= sw_tokens[r]
          /\ sw_replies[r] + sw_bytes[r] <= 1
    /\ Cardinality(SwHolders) <= sw_width
    /\ sw_zero.pc # "undefined"
    /\ SwAllDone \/ SwCanStep
    /\ sw_zero.pc = "done" =>
          \A r \in SwOthers : sw_tokens[r] = 1 /\ sw_replies[r] = 1 /\ sw_pc[r] = "done"

MaxMvSize == 2

MaxMvBuf == 2

MvProcs == {0, 1}

MvPeer(p) == 1 - p

MvMax(a, b) == IF a > b THEN a ELSE b

MvByte == {0, 1}

MvNames == {"send", "recv"}

NoMvFile == [there |-> FALSE, bytes |-> <<>>]

NoMvMeta == [there |-> FALSE, complete |-> FALSE, rank |-> 0, filesize |-> 0]

MvFile(bytes) == [there |-> TRUE, bytes |-> bytes]

MvFiles(n) == UNION {[1..k -> MvByte] : k \in 0..n}

\* the sidecar scr_complete wrote for rank r's file when it was usable
MvMetaOf(file, r) ==
    IF file.there
    THEN [there |-> TRUE, complete |-> TRUE, rank |-> r, filesize |-> Len(file.bytes)]
    ELSE NoMvMeta

\* scr_bool_have_file: the file is readable, its sidecar is readable and
\* complete, names the rank asked for, and the measured size matches (the
\* checkpoint id and the number of ranks do not change during the exchange)
mv_have_file(file, meta, rank) ==
    /\ file.there
    /\ meta.there
    /\ meta.complete
    /\ meta.rank = rank
    /\ Len(file.bytes) = meta.filesize

\* count of bytes to read in one iteration
mv_count(filesize_send, read_pos, buf) == Min(filesize_send - read_pos, buf)

\* lseek(fd, read_pos) and scr_read of up to count bytes: stops at end of file
mv_read(bytes, read_pos, count) ==
    SubSeq(bytes, read_pos + 1, Min(read_pos + count, Len(bytes)))

\* a write that lands one chunk further on
mv_write_ahead(bytes, pos, chunk) ==
    [i \in 1..MvMax(Len(bytes), pos + 2 * Len(chunk)) |->
        IF i > pos + Len(chunk) /\ i <= pos + 2 * Len(chunk) THEN chunk[i - pos - Len(chunk)]
        ELSE IF i <= Len(bytes) THEN bytes[i]
        ELSE 0]

\* lseek(fd, write_pos) and scr_write of the chunk: overwrites and extends
mv_write(bytes, pos, chunk) ==
    [i \in 1..MvMax(Len(bytes), pos + Len(chunk)) |->
        IF i > pos /\ i <= pos + Len(chunk) THEN chunk[i - pos]
        ELSE IF i <= Len(bytes) THEN bytes[i]
        ELSE 0]

\* truncate(file, n): cuts, or pads with zero bytes
mv_truncate(bytes, n) ==
    [i \in 1..n |-> IF i <= Len(bytes) THEN bytes[i] ELSE 0]

\* the file the descriptor of the MOVE branch refers to
mv_fd(P) == IF P.have_outgoing THEN "send" ELSE "recv"

InitMove ==
    /\ mv_buf \in 1..MaxMvBuf
    /\ mv_orig \in [MvProcs -> {NoMvFile} \cup {MvFile(b) : b \in MvFiles(MaxMvSize)}]
    /\ mv_disk = [p \in MvProcs |-> [send |-> mv_orig[MvPeer(p)], recv |-> NoMvFile]]
    /\ mv_meta = [p \in MvProcs |->
                    [send |-> MvMetaOf(mv_orig[MvPeer(p)], MvPeer(p)), recv |-> NoMvMeta]]
    /\ mv_proc = [p \in MvProcs |->
                    [pc |-> "entry",
                     have_outgoing |-> mv_orig[MvPeer(p)].there,
                     have_incoming |-> mv_orig[p].there,
                     sending |-> FALSE, receiving |-> FALSE,
                     read_pos |-> 0, write_pos |-> 0, filesize_send |-> 0,
                     meta_send |-> NoMvMeta, rc |-> SCR_SUCCESS]]
    /\ mv_chan = [p \in MvProcs |-> <<>>]
    /\ mv_mchan = [p \in MvProcs |-> <<>>]
    /\ mv_sent = [p \in MvProcs |-> <<>>]
    /\ mv_crashed = FALSE
    /\ IdleXor /\ IdleDist /\ IdleInit /\ IdleFilemap /\ IdleFlush /\ IdleEvict
    /\ IdleCkpt /\ IdleAttempt /\ IdleFetch /\ IdleXfer /\ IdleHalt /\ IdleScatter
    /\ IdleDesc /\ IdleWait /\ IdleTail /\ IdleExchange /\ IdleWindow

\* read the sidecar of the file to send, open the file (or create the file
\* to receive) and set up the loop
MvOpen(p) ==
    LET P == mv_proc[p] IN
    /\ ~mv_crashed
    /\ P.pc = "entry"
    /\ mv_proc' = [mv_proc EXCEPT ![p] =
            [P EXCEPT !.pc = "loop",
                      !.meta_send = IF P.have_outgoing THEN mv_meta[p].send ELSE NoMvMeta,
                      !.filesize_send = IF P.have_outgoing THEN Len(mv_disk[p].send.bytes) ELSE 0,
                      !.sending = P.have_outgoing,
                      !.receiving = P.have_incoming]]
    /\ mv_disk' = IF ~P.have_outgoing /\ P.have_incoming
                  THEN [mv_disk EXCEPT ![p].recv = MvFile(<<>>)]
                  ELSE mv_disk
    /\ UNCHANGED <<mv_buf, mv_orig, mv_meta, mv_chan, mv_mchan, mv_sent, mv_crashed>>

\* top half of an iteration: read the next chunk and send it
MvRead(p) ==
    LET P == mv_proc[p]
        count == mv_count(P.filesize_send, P.read_pos, mv_buf)
        chunk == mv_read(mv_disk[p].send.bytes, P.read_pos, count)
        pos == P.read_pos + Len(chunk)
    IN
    /\ ~mv_crashed
    /\ P.pc = "loop"
    /\ P.sending \/ P.receiving
    /\ IF P.sending
       THEN /\ mv_proc' = [mv_proc EXCEPT ![p] =
                    [P EXCEPT !.pc = "recv",
                              !.read_pos = pos,
                              !.sending = ~(P.filesize_send = pos /\ count < mv_buf)]]
            /\ mv_chan' = [mv_chan EXCEPT ![MvPeer(p)] = Append(@, chunk)]
            /\ mv_sent' = [mv_sent EXCEPT ![p] = @ \o chunk]
       ELSE /\ mv_proc' = [mv_proc EXCEPT ![p].pc = "recv"]
            /\ UNCHANGED <<mv_chan, mv_sent>>
    /\ UNCHANGED <<mv_buf, mv_orig, mv_disk, mv_meta, mv_mchan, mv_crashed>>

\* bottom half of an iteration: wait for the chunk and write it
MvWrite(p) ==
    LET P == mv_proc[p]
        chunk == Head(mv_chan[p])
        f == mv_fd(P)
    IN
    /\ ~mv_crashed
    /\ P.pc = "recv"
    /\ IF P.receiving
       THEN /\ mv_chan[p] # <<>>
            /\ mv_chan' = [mv_chan EXCEPT ![p] = Tail(@)]
            /\ mv_disk' = [mv_disk EXCEPT ![p][f].bytes = mv_write(@, P.write_pos, chunk)]
            /\ mv_proc' = [mv_proc EXCEPT ![p] =
                    [P EXCEPT !.pc = "loop",
                              !.write_pos = P.write_pos + Len(chunk),
                              !.receiving = ~(Len(chunk) < mv_buf)]]
       ELSE /\ mv_proc' = [mv_proc EXCEPT ![p].pc = "loop"]
            /\ UNCHANGED <<mv_chan, mv_disk>>
    /\ UNCHANGED <<mv_buf, mv_orig, mv_meta, mv_mchan, mv_sent, mv_crashed>>

\* the loop ends; what follows depends on the directions
MvLoopExit(p) ==
    LET P == mv_proc[p] IN
    /\ ~mv_crashed
    /\ P.pc = "loop"
    /\ ~P.sending /\ ~P.receiving
    /\ mv_proc' = [mv_proc EXCEPT ![p].pc =
            IF P.have_outgoing /\ P.have_incoming THEN "truncate"
            ELSE IF P.have_outgoing THEN "unlink"
            ELSE "exchange"]
    /\ UNCHANGED <<mv_buf, mv_orig, mv_disk, mv_meta, mv_chan, mv_mchan, mv_sent, mv_crashed>>

MvTruncate(p) ==
    LET P == mv_proc[p] IN
    /\ ~mv_crashed
    /\ P.pc = "truncate"
    /\ mv_disk' = [mv_disk EXCEPT ![p].send.bytes = mv_truncate(@, P.write_pos)]
    /\ mv_proc' = [mv_proc EXCEPT ![p].pc = "rename"]
    /\ UNCHANGED <<mv_buf, mv_orig, mv_meta, mv_chan, mv_mchan, mv_sent, mv_crashed>>

MvRename(p) ==
    /\ ~mv_crashed
    /\ mv_proc[p].pc = "rename"
    /\ mv_disk' = [mv_disk EXCEPT ![p] = [send |-> NoMvFile, recv |-> mv_disk[p].send]]
    /\ mv_proc' = [mv_proc EXCEPT ![p].pc = "incomplete"]
    /\ UNCHANGED <<mv_buf, mv_orig, mv_meta, mv_chan, mv_mchan, mv_sent, mv_crashed>>

MvUnlink(p) ==
    /\ ~mv_crashed
    /\ mv_proc[p].pc = "unlink"
    /\ mv_disk' = [mv_disk EXCEPT ![p].send = NoMvFile]
    /\ mv_proc' = [mv_proc EXCEPT ![p].pc = "incomplete"]
    /\ UNCHANGED <<mv_buf, mv_orig, mv_meta, mv_chan, mv_mchan, mv_sent, mv_crashed>>

\* scr_incomplete(file_send): remove the sidecar of the file sent
MvIncomplete(p) ==
    /\ ~mv_crashed
    /\ mv_proc[p].pc = "incomplete"
    /\ mv_meta' = [mv_meta EXCEPT ![p].send = NoMvMeta]
    /\ mv_proc' = [mv_proc EXCEPT ![p].pc = "exchange"]
    /\ UNCHANGED <<mv_buf, mv_orig, mv_disk, mv_chan, mv_mchan, mv_sent, mv_crashed>>

\* scr_hash_sendrecv, sending half
MvMetaSend(p) ==
    /\ ~mv_crashed
    /\ mv_proc[p].pc = "exchange"
    /\ mv_mchan' = [mv_mchan EXCEPT ![MvPeer(p)] = Append(@, mv_proc[p].meta_send)]
    /\ mv_proc' = [mv_proc EXCEPT ![p].pc = "metawait"]
    /\ UNCHANGED <<mv_buf, mv_orig, mv_disk, mv_meta, mv_chan, mv_sent, mv_crashed>>

\* scr_hash_sendrecv, receiving half, then the size check and scr_complete
MvMetaRecv(p) ==
    LET P == mv_proc[p]
        meta_recv == Head(mv_mchan[p])
        ok == meta_recv.filesize = Len(mv_disk[p].recv.bytes)
    IN
    /\ ~mv_crashed
    /\ P.pc = "metawait"
    /\ mv_mchan[p] # <<>>
    /\ mv_mchan' = [mv_mchan EXCEPT ![p] = Tail(@)]
    /\ IF P.have_incoming
       THEN /\ mv_meta' = [mv_meta EXCEPT ![p].recv =
                    [meta_recv EXCEPT !.there = TRUE, !.complete = meta_recv.complete /\ ok]]
            /\ mv_proc' = [mv_proc EXCEPT ![p] =
                    [P EXCEPT !.pc = "done", !.rc = IF ok THEN SCR_SUCCESS ELSE SCR_FAILURE]]
       ELSE /\ mv_proc' = [mv_proc EXCEPT ![p].pc = "done"]
            /\ UNCHANGED mv_meta
    /\ UNCHANGED <<mv_buf, mv_orig, mv_disk, mv_chan, mv_sent, mv_crashed>>

\* the job dies; what is on disk stays
MvCrash ==
    /\ ~mv_crashed
    /\ mv_crashed' = TRUE
    /\ UNCHANGED <<mv_buf, mv_orig, mv_disk, mv_meta, mv_proc, mv_chan, mv_mchan, mv_sent>>

NextMove ==
    /\ \/ \E p \in MvProcs : MvOpen(p)
       \/ \E p \in MvProcs : MvRead(p)
       \/ \E p \in MvProcs : MvWrite(p)
       \/ \E p \in MvProcs : MvLoopExit(p)
       \/ \E p \in MvProcs : MvTruncate(p)
       \/ \E p \in MvProcs : MvRename(p)
       \/ \E p \in MvProcs : MvUnlink(p)
       \/ \E p \in MvProcs : MvIncomplete(p)
       \/ \E p \in MvProcs : MvMetaSend(p)
       \/ \E p \in MvProcs : MvMetaRecv(p)
       \/ MvCrash
    /\ UNCHANGED <<xorVars, distVars, initVars, fmVars, flushVars, evictVars,
                   ckptVars, attemptVars, fetchVars, xferVars, haltVars,
                   scatterVars, descVars, waitVars, tailVars, exVars, swVars>>

SpecMove == InitMove /\ [][NextMove]_vars

MvInPlace(p) == mv_proc[p].have_outgoing /\ mv_proc[p].have_incoming

\* C37: at any crash point of a MOVE exchange, every file that passes the
\* present-and-usable check for a rank holds exactly the original bytes of
\* that rank's file.
C37_UsableIsOriginal ==
    mv_crashed =>
        \A p \in MvProcs : \A n \in MvNames : \A r \in MvProcs :
            mv_have_file(mv_disk[p][n], mv_meta[p][n], r)
                => mv_disk[p][n].bytes = mv_orig[r].bytes

\* C39 as stated: when a process sends and receives through the same file,
\* after every write the write position is at most the read position.
C39_WriteBehindRead ==
    \A p \in MvProcs :
        MvInPlace(p) => mv_proc[p].write_pos <= mv_proc[p].read_pos

\* C39 amended: when a process sends and receives through the same file,
\* after every write the write position is at most the read position or the
\* outgoing file has been read to its end, and the bytes sent so far are
\* the original bytes of the outgoing file up to the read position.
C39_WriteBehindReadOrEnd ==
    \A p \in MvProcs :
        MvInPlace(p) =>
            /\ \/ mv_proc[p].write_pos <= mv_proc[p].read_pos
               \/ mv_proc[p].read_pos = mv_proc[p].filesize_send
            /\ mv_sent[p] = SubSeq(mv_orig[MvPeer(p)].bytes, 1, mv_proc[p].read_pos)

C39_Witness ==
    \E p \in MvProcs :
        /\ MvInPlace(p)
        /\ mv_proc[p].pc = "loop"
        /\ mv_proc[p].write_pos > 0
        /\ mv_proc[p].read_pos < mv_proc[p].filesize_send
        /\ mv_disk[p].send.bytes # mv_orig[MvPeer(p)].bytes

====
